---- MODULE Spec2Model ----
(***************************************************************************)
(* Content scoring and viral prediction of the marketing content optimizer *)
(* (page/7_AB_Testing.py, pages/7_AB_Testing.py, pages/8_AB_Testing.py,    *)
(* pages/9_Prediction_Coach.py).                                           *)
(*                                                                         *)
(* Representation.                                                         *)
(*  - A text is a sequence of one-character strings, so that lower(),      *)
(*    split() and the substring test `p in text` are computed on the       *)
(*    characters as Python computes them.                                  *)
(*  - Sub-scores and the VADER compound sentiment are fixed-point numbers  *)
(*    in units of 1/10000 (VADER rounds the compound to 4 decimals).       *)
(*  - Final scores, platform modifiers and viral scores, which the code    *)
(*    rounds to 3 decimals, are integers in units of 1/1000.               *)
(***************************************************************************)
EXTENDS Integers, Sequences, FiniteSets, TLC

VARIABLES
    shape,      \* how the sample text was put together (head, repeats, pad)
    text,       \* input of the scorer / predictor: the text
    sent,       \* sid.polarity_scores(text)["compound"], units of 1/10000
    scored,     \* result of the last final_score call
    base_score, \* input of compute_viral_prediction, units of 1/1000
    predicted,  \* result of the last compute_viral_prediction call
    row,        \* input of run_prediction_coach: one record of AB_Testing
    record,     \* result record run_prediction_coach appended for the row
    plat,       \* input of platform_modifier / suggest_posting_time
    modifier,   \* result of the last platform_modifier call
    post_time,  \* result of the last suggest_posting_time call
    llm,        \* one item on its way through a function that asks an LLM
    sid,        \* the module-level SentimentIntensityAnalyzer: text -> compound
    evals,      \* the calls of the scorer and the predictor made so far
    sheet,      \* the spreadsheet: the rows of each tab, or that it is absent
    slack,      \* the texts passed to send_slack so far, in order
    run,        \* the workflow run in progress: its inputs and its position
    parsed      \* result of the last parse_optimization_output call

\* the state of the scorer, the predictor, the coach's row and the LLM call
scoring_vars == <<shape, text, sent, scored, base_score, predicted, row, record,
                  plat, modifier, post_time, llm>>

\* the state of the workflows that read and write the spreadsheet
workflow_vars == <<sid, evals, sheet, slack, run, parsed>>

vars == <<scoring_vars, workflow_vars>>

----------------------------------------------------------------------------
(* Bounds of the checked input space.                                      *)

\* largest number of filler words appended to a sample text
MaxPad == 76

\* largest number of times the head of a sample text is repeated
MaxRepeat == 10

----------------------------------------------------------------------------
(* Python string primitives.                                               *)

UpperChars ==
    << "A", "B", "C", "D", "E", "F", "G", "H", "I", "J", "K", "L", "M",
       "N", "O", "P", "Q", "R", "S", "T", "U", "V", "W", "X", "Y", "Z" >>

LowerChars ==
    << "a", "b", "c", "d", "e", "f", "g", "h", "i", "j", "k", "l", "m",
       "n", "o", "p", "q", "r", "s", "t", "u", "v", "w", "x", "y", "z" >>

\* str.lower() on one character
lower_char(c) ==
    IF \E i \in 1..26 : UpperChars[i] = c
    THEN LowerChars[CHOOSE i \in 1..26 : UpperChars[i] = c]
    ELSE c

\* str.lower()
lower(s) == [i \in 1..Len(s) |-> lower_char(s[i])]

\* the characters str.split() treats as separators
Whitespace == {" ", "\n", "\t"}

\* position i starts a word: a non-separator at the start of s or after a
\* separator
word_starts_at(s, i) ==
    /\ s[i] \notin Whitespace
    /\ (i = 1 \/ s[i - 1] \in Whitespace)

\* the word starting at position i: the maximal run of non-separators
word_at(s, i) ==
    LET e == CHOOSE j \in i..Len(s) :
                 /\ \A k \in i..j : s[k] \notin Whitespace
                 /\ (j = Len(s) \/ s[j + 1] \in Whitespace)
    IN  SubSeq(s, i, e)

\* the words of s that start at a position in lo..hi, in order
RECURSIVE words_between(_, _, _)
words_between(s, lo, hi) ==
    IF lo > hi THEN <<>>
    ELSE IF lo = hi
         THEN IF word_starts_at(s, lo) THEN <<word_at(s, lo)>> ELSE <<>>
         ELSE LET mid == (lo + hi) \div 2
              IN  words_between(s, lo, mid) \o words_between(s, mid + 1, hi)

\* str.split(): the maximal runs of non-whitespace characters, in order
split(s) == words_between(s, 1, Len(s))

\* Python `p in s` on strings: p occurs in s as a contiguous substring
contains(p, s) ==
    \E i \in 0..(Len(s) - Len(p)) : \A j \in 1..Len(p) : s[i + j] = p[j]

\* any(c in s for c in patterns)
contains_any(patterns, s) == \E p \in patterns : contains(p, s)

\* Python truthiness of a str: `not text` holds of the empty string
is_empty(s) == Len(s) = 0

\* round(x, 3) of the exact value x = num / den (den > 0), as an integer
\* number of thousandths; exact ties go to the even neighbour.  The input
\* grids below contain no exact tie, where binary floating point decides.
round_to(num, den) ==
    LET q == num \div den
        r == num % den
    IN  IF 2 * r < den THEN q
        ELSE IF 2 * r > den THEN q + 1
        ELSE IF q % 2 = 0 THEN q ELSE q + 1

min2(a, b) == IF a <= b THEN a ELSE b
max2(a, b) == IF a >= b THEN a ELSE b

----------------------------------------------------------------------------
(* page/7_AB_Testing.py: the five-term scorer.                             *)

keywords_page7 ==
    { <<"s", "m", "a", "r", "t">>,
      <<"i", "n", "n", "o", "v", "a", "t", "i", "v", "e">>,
      <<"b", "o", "o", "s", "t">>,
      <<"g", "r", "o", "w", "t", "h">>,
      <<"A", "I">>,
      <<"a", "u", "t", "o", "m", "a", "t", "i", "o", "n">> }

ctas_page7 ==
    { <<"b", "u", "y", " ", "n", "o", "w">>,
      <<"s", "t", "a", "r", "t", " ", "t", "o", "d", "a", "y">>,
      <<"l", "e", "a", "r", "n", " ", "m", "o", "r", "e">>,
      <<"e", "x", "p", "l", "o", "r", "e">>,
      <<"t", "r", "y", " ", "n", "o", "w">> }

trends_page7 ==
    { <<"2", "0", "2", "5">>,
      <<"t", "r", "e", "n", "d", "i", "n", "g">>,
      <<"m", "o", "d", "e", "r", "n">>,
      <<"a", "u", "t", "o", "m", "a", "t", "i", "o", "n">>,
      <<"A", "I">> }

\* count = sum(1 for w in words if w in keywords), words = text.lower().split()
keyword_count(t, keywords) ==
    LET words == split(lower(t))
    IN  Cardinality({i \in 1..Len(words) : words[i] \in keywords})

\* min(count / 5, 1.0), units of 1/10000
keyword_score(t) == min2(2000 * keyword_count(t, keywords_page7), 10000)

\* readability_score with the lower threshold off by one (length <= 8)
readability_score_off_by_one(t) ==
    LET length == Len(split(t))
    IN  IF length <= 8 THEN 4000
        ELSE IF length > 60 THEN 5000
        ELSE 10000

\* 0.4 if length < 8, 0.5 if length > 60, else 1.0; units of 1/10000
readability_score(t) ==
    LET length == Len(split(t))
    IN  IF length < 8 THEN 4000
        ELSE IF length > 60 THEN 5000
        ELSE 10000

\* 1.0 if any(c in text.lower() for c in ctas) else 0.4
cta_strength(t) == IF contains_any(ctas_page7, lower(t)) THEN 10000 ELSE 4000

\* 1.0 if any(t.lower() in text.lower() for t in trends) else 0.5
trend_score(t) ==
    IF \E tr \in trends_page7 : contains(lower(tr), lower(t))
    THEN 10000 ELSE 5000

\* final_score of page/7 with the weighting of the later revisions
final_score_page7_four_term(t, s) ==
    round_to(30 * s + 20 * keyword_score(t) + 20 * readability_score(t)
             + 30 * cta_strength(t), 1000)

\* round(0.30*s + 0.20*k + 0.20*r + 0.20*tr + 0.10*c, 3), units of 1/1000;
\* s is the compound sentiment of t
final_score_page7(t, s) ==
    LET k  == keyword_score(t)
        r  == readability_score(t)
        c  == cta_strength(t)
        tr == trend_score(t)
    IN  round_to(30 * s + 20 * k + 20 * r + 20 * tr + 10 * c, 1000)

----------------------------------------------------------------------------
(* pages/8_AB_Testing.py and pages/7_AB_Testing.py: the four-term scorer.  *)

keywords_pages8 ==
    { <<"s", "m", "a", "r", "t">>,
      <<"i", "n", "n", "o", "v", "a", "t", "i", "v", "e">>,
      <<"b", "o", "o", "s", "t">>,
      <<"g", "r", "o", "w", "t", "h">>,
      <<"A", "I">>,
      <<"a", "u", "t", "o", "m", "a", "t", "i", "o", "n">>,
      <<"f", "r", "e", "e">>,
      <<"n", "o", "w">> }

ctas_pages8 ==
    { <<"b", "u", "y", " ", "n", "o", "w">>,
      <<"s", "t", "a", "r", "t", " ", "t", "o", "d", "a", "y">>,
      <<"l", "e", "a", "r", "n", " ", "m", "o", "r", "e">>,
      <<"e", "x", "p", "l", "o", "r", "e">>,
      <<"t", "r", "y", " ", "n", "o", "w">>,
      <<"l", "i", "n", "k", " ", "i", "n", " ", "b", "i", "o">> }

\* k_score = min(sum(1 for w in words if w in keywords) / 5, 1.0)
k_score_pages8(t) == min2(2000 * keyword_count(t, keywords_pages8), 10000)

\* r_score = 1.0 if 8 <= length <= 60 else 0.5, length = len(words)
r_score_pages8(t) ==
    LET length == Len(split(lower(t)))
    IN  IF 8 <= length /\ length <= 60 THEN 10000 ELSE 5000

\* c_score = 1.0 if any(c in text.lower() for c in ctas) else 0.4
c_score_pages8(t) == IF contains_any(ctas_pages8, lower(t)) THEN 10000 ELSE 4000

\* final_score of pages/8 without the guard for the empty text
final_score_pages8_no_guard(t, s) ==
    round_to(30 * s + 20 * k_score_pages8(t) + 20 * r_score_pages8(t)
             + 30 * c_score_pages8(t), 1000)

\* if not text: return 0.0
\* round(0.3*s + 0.2*k_score + 0.2*r_score + 0.3*c_score, 3)
final_score_pages8(t, s) ==
    IF is_empty(t) THEN 0
    ELSE round_to(30 * s + 20 * k_score_pages8(t) + 20 * r_score_pages8(t)
                  + 30 * c_score_pages8(t), 1000)

\* pages/7_AB_Testing.py carries the same scorer, statement for statement
keywords_pages7 == keywords_pages8

ctas_pages7 == ctas_pages8

k_score_pages7(t) == min2(2000 * keyword_count(t, keywords_pages7), 10000)

r_score_pages7(t) ==
    LET length == Len(split(lower(t)))
    IN  IF 8 <= length /\ length <= 60 THEN 10000 ELSE 5000

c_score_pages7(t) == IF contains_any(ctas_pages7, lower(t)) THEN 10000 ELSE 4000

\* final_score of pages/7 with the keyword and CTA weights exchanged
final_score_pages7_weights_exchanged(t, s) ==
    IF is_empty(t) THEN 0
    ELSE round_to(30 * s + 30 * k_score_pages7(t) + 20 * r_score_pages7(t)
                  + 20 * c_score_pages7(t), 1000)

\* if not text: return 0.0
\* round(0.3*s + 0.2*k_score + 0.2*r_score + 0.3*c_score, 3)
final_score_pages7(t, s) ==
    IF is_empty(t) THEN 0
    ELSE round_to(30 * s + 20 * k_score_pages7(t) + 20 * r_score_pages7(t)
                  + 30 * c_score_pages7(t), 1000)

----------------------------------------------------------------------------
(* The checked input space: sample texts and sentiment values.             *)

\* the leading words of the sample texts; an empty word makes the joined
\* text start, end or continue with an extra blank
Heads ==
    << <<  >>,
       << <<"A", "I">> >>,
       << <<"a", "i">> >>,
       << <<"S", "m", "a", "r", "t">> >>,
       << <<"g", "r", "o", "w", "t", "h">> >>,
       << <<"B", "u", "y">>, <<"n", "o", "w">> >>,
       << <<"G", "r", "e", "a", "t">>, <<"d", "e", "a", "l", "!">>, <<"#", "t", "r", "e", "n", "d", "i", "n", "g">> >>,
       << <<"p", "r", "o", "d", "u", "c", "t", "i", "v", "i", "t", "y">> >>,
       << <<"H", "o", "w">>, <<"t", "o">> >>,
       << <<"l", "o", "v", "e">> >>,
       << <<"a", "u", "t", "o", "m", "a", "t", "i", "o", "n">> >>,
       << <<>>, <<"b", "o", "o", "s", "t">>, <<>> >>,
       << <<"l", "i", "n", "k">>, <<"i", "n">>, <<"b", "i", "o">> >>,
       << <<"f", "r", "e", "e">> >>,
       << <<"#", "s", "a", "l", "e">> >>,
       << <<"t", "r", "e", "n", "d", "i", "n", "g">> >>,
       << <<"w", "o", "w", "!">> >>,
       << <<"t", "e", "r", "r", "i", "b", "l", "e">>, <<"a", "w", "f", "u", "l">>, <<"h", "o", "r", "r", "i", "b", "l", "e">> >>,
       << <<>>, <<>> >>,
       << <<"T", "r", "e", "n", "d", "i", "n", "g">>, <<"D", "a", "t", "a">> >>,
       << <<"l", "o", "v", "e">>, <<"#", "f", "u", "n">> >>,
       << <<"d", "a", "t", "a", "b", "a", "s", "e">> >> >>

\* the word that pads a sample text to a given length
Filler == <<"x">>

\* word-count thresholds of the scorers and of the platform rules
Thresholds == {0, 8, 10, 20, 30, 40, 50, 60}

\* numbers of filler words: around every threshold, and 5 and 75 and above
PadCounts ==
    {n \in 0..MaxPad :
        \/ \E th \in Thresholds : n >= th - 1 /\ n <= th + 1
        \/ n = 5
        \/ n >= 75}

\* the words ws, n times over
repeat_words(ws, n) ==
    [k \in 1..(n * Len(ws)) |-> ws[((k - 1) % Len(ws)) + 1]]

\* the words ws[lo..hi] joined by single blanks
RECURSIVE join_between(_, _, _)
join_between(ws, lo, hi) ==
    IF lo > hi THEN <<>>
    ELSE IF lo = hi THEN ws[lo]
    ELSE LET mid == (lo + hi) \div 2
         IN  join_between(ws, lo, mid) \o <<" ">> \o join_between(ws, mid + 1, hi)

join_words(ws) == join_between(ws, 1, Len(ws))

\* the sample text: head h repeated rep times, then pad filler words,
\* joined by single blanks
SampleText(h, rep, pad) ==
    join_words(repeat_words(Heads[h], rep) \o repeat_words(<<Filler>>, pad))

\* a head is padded, or repeated, not both
Shapes ==
    {[h |-> h, rep |-> 1, pad |-> pad] : h \in 1..Len(Heads), pad \in PadCounts}
    \cup {[h |-> h, rep |-> rep, pad |-> 0] : h \in 1..Len(Heads), rep \in 2..MaxRepeat}

TextOf(sh) == SampleText(sh.h, sh.rep, sh.pad)

\* the number of words a sample text was put together from
WordsOf(sh) ==
    sh.rep * Cardinality({i \in 1..Len(Heads[sh.h]) : Heads[sh.h][i] # <<>>})
    + sh.pad

\* the shape of a text that is no sample text
NoShape == [h |-> 0, rep |-> 0, pad |-> 0]

\* compound sentiment values, units of 1/10000, spanning [-1, 1]
Sentiments == {-10000, -8625, 0, 4404, 10000}

\* VADER scores a text without any token as 0.0
SentimentsOf(t) == IF Len(split(t)) = 0 THEN {0} ELSE Sentiments

----------------------------------------------------------------------------
(* Idle values of the parts of the state a specification does not use.     *)

\* a sub-score the scorer returned without computing
NotComputed == -1

NotScored ==
    [rev |-> "none", val |-> 0, k |-> NotComputed, r |-> NotComputed,
     c |-> NotComputed, tr |-> NotComputed]

NoCell == [kind |-> "absent", v |-> 0]

NoRow ==
    [A_Text |-> <<>>, B_Text |-> <<>>, Variant_A |-> <<>>, Variant_B |-> <<>>,
     score_a |-> NoCell, score_b |-> NoCell]

NotPredicted ==
    [called |-> FALSE, raised |-> FALSE, length |-> 0, mods |-> <<>>,
     platform_scores |-> <<>>, best_platform |-> "none"]

NoRecord == [written |-> FALSE]

NoPlatform == "none"

NoModifier == [called |-> FALSE, raised |-> FALSE, length |-> 0, val |-> 0]

NoTime == "none"

NoLLM == [fn |-> "none"]

\* no analyzer constructed
NoSid == <<>>

\* no spreadsheet opened
NoSheet == <<>>

\* no workflow running
NoRun == [fn |-> "none"]

\* parse_optimization_output not called
NotParsed == [called |-> FALSE]

\* the workflows are not running
WorkflowIdle ==
    /\ sid = NoSid
    /\ evals = <<>>
    /\ sheet = NoSheet
    /\ slack = <<>>
    /\ run = NoRun
    /\ parsed = NotParsed

----------------------------------------------------------------------------
(* Scoring one text: final_score applied in each revision.                 *)

InitScore ==
    /\ WorkflowIdle
    /\ shape \in Shapes
    /\ text = TextOf(shape)
    /\ sent \in SentimentsOf(text)
    /\ scored = NotScored
    /\ base_score = 0
    /\ predicted = NotPredicted
    /\ row = NoRow
    /\ record = NoRecord
    /\ plat = NoPlatform
    /\ modifier = NoModifier
    /\ post_time = NoTime
    /\ llm = NoLLM

\* page/7_AB_Testing.py: final_score(text); the sub-scores are its locals
ScorePage7 ==
    /\ scored = NotScored
    /\ scored' = [rev |-> "page/7",
                  val |-> final_score_page7(text, sent),
                  k   |-> keyword_score(text),
                  r   |-> readability_score(text),
                  c   |-> cta_strength(text),
                  tr  |-> trend_score(text)]
    /\ UNCHANGED workflow_vars
    /\ UNCHANGED <<shape, text, sent, base_score, predicted, row, record,
                 plat, modifier, post_time, llm>>

\* pages/7_AB_Testing.py: final_score(text); no sub-score is computed for
\* the empty text, and none for trends
ScorePages7 ==
    /\ scored = NotScored
    /\ scored' = [rev |-> "pages/7",
                  val |-> final_score_pages7(text, sent),
                  k   |-> IF is_empty(text) THEN NotComputed ELSE k_score_pages7(text),
                  r   |-> IF is_empty(text) THEN NotComputed ELSE r_score_pages7(text),
                  c   |-> IF is_empty(text) THEN NotComputed ELSE c_score_pages7(text),
                  tr  |-> NotComputed]
    /\ UNCHANGED workflow_vars
    /\ UNCHANGED <<shape, text, sent, base_score, predicted, row, record,
                 plat, modifier, post_time, llm>>

\* pages/8_AB_Testing.py: final_score(text)
ScorePages8 ==
    /\ scored = NotScored
    /\ scored' = [rev |-> "pages/8",
                  val |-> final_score_pages8(text, sent),
                  k   |-> IF is_empty(text) THEN NotComputed ELSE k_score_pages8(text),
                  r   |-> IF is_empty(text) THEN NotComputed ELSE r_score_pages8(text),
                  c   |-> IF is_empty(text) THEN NotComputed ELSE c_score_pages8(text),
                  tr  |-> NotComputed]
    /\ UNCHANGED workflow_vars
    /\ UNCHANGED <<shape, text, sent, base_score, predicted, row, record,
                 plat, modifier, post_time, llm>>

NextScore == ScorePage7 \/ ScorePages7 \/ ScorePages8

SpecScore == InitScore /\ [][NextScore]_vars

----------------------------------------------------------------------------
(* pages/9_Prediction_Coach.py: platform modifiers and viral prediction.   *)

PLATFORMS == <<"Twitter", "Instagram", "LinkedIn", "YouTube">>

\* the value None where a text is expected; no text contains this element
NoneText == <<"None">>

\* text without the `or ""`: None stays None
text_or_empty_missing(t) == t

\* (text or "")
text_or_empty(t) == IF t = NoneText \/ is_empty(t) THEN <<>> ELSE t

\* v.lower() exists: None has no attribute lower, the call raises
\* AttributeError
has_lower(v) == v # NoneText

\* platform_modifier(t, platform) raises instead of returning
platform_modifier_raises(t) == ~has_lower(text_or_empty(t))

\* length = len(text_l.split()) of platform_modifier
modifier_length(t) == Len(split(lower(text_or_empty(t))))

instagram_words ==
    { <<"a", "m", "a", "z", "i", "n", "g">>,
      <<"f", "u", "n">>,
      <<"l", "o", "v", "e">>,
      <<"c", "u", "t", "e">> }

linkedin_words ==
    { <<"i", "n", "s", "i", "g", "h", "t">>,
      <<"d", "a", "t", "a">>,
      <<"s", "t", "r", "a", "t", "e", "g", "y">>,
      <<"g", "r", "o", "w", "t", "h">> }

youtube_words ==
    { <<"h", "o", "w", " ", "t", "o">>,
      <<"t", "u", "t", "o", "r", "i", "a", "l">>,
      <<"g", "u", "i", "d", "e">>,
      <<"w", "a", "t", "c", "h">> }

\* rule adding twice the amount
rule_doubled(cond, amount) == IF cond THEN 2 * amount ELSE 0

\* a rule's contribution: amount if the condition holds, units of 1/10000
rule(cond, amount) == IF cond THEN amount ELSE 0

\* twitter_rules counting "#" and "trending" separately
twitter_rules_counted_twice(text_l, length) ==
    rule(length <= 30, 800)
    + rule(contains(<<"#">>, text_l), 500)
    + rule(contains(<<"t", "r", "e", "n", "d", "i", "n", "g">>, text_l), 500)
    + rule(contains(<<"!">>, text_l), 200)
    + rule(length > 50, -500)

\* the rules for Twitter posts, units of 1/10000
twitter_rules(text_l, length) ==
    rule(length <= 30, 800)
    + rule(contains(<<"#">>, text_l)
           \/ contains(<<"t", "r", "e", "n", "d", "i", "n", "g">>, text_l),
           500)
    + rule(contains(<<"!">>, text_l), 200)
    + rule(length > 50, -500)

\* the rules for Instagram posts
instagram_rules(text_l, length) ==
    rule(8 <= length /\ length <= 60, 700)
    + rule(contains(<<"#">>, text_l), 700)
    + rule(contains_any(instagram_words, text_l), 400)

\* the rules for LinkedIn posts
linkedin_rules(text_l, length) ==
    rule(length >= 20, 800)
    + rule(contains_any(linkedin_words, text_l), 600)
    + rule(length < 10, -300)

\* the rules for YouTube descriptions and titles
youtube_rules(text_l, length) ==
    rule(length >= 40, 700)
    + rule(contains_any(youtube_words, text_l), 500)

\* round(mod, 3), units of 1/1000; each rule adds to mod independently
platform_modifier(t, platform) ==
    LET text_l == lower(text_or_empty(t))
        length == Len(split(text_l))
        mod ==
            IF platform = "Twitter" THEN twitter_rules(text_l, length)
            ELSE IF platform = "Instagram" THEN instagram_rules(text_l, length)
            ELSE IF platform = "LinkedIn" THEN linkedin_rules(text_l, length)
            ELSE IF platform = "YouTube" THEN youtube_rules(text_l, length)
            ELSE 0
    IN  round_to(mod, 10)

\* suggest_posting_time falling back to the time of the first platform
suggest_posting_time_no_default(platform) ==
    IF platform = "Instagram" THEN "6-9 PM (Weekdays)"
    ELSE IF platform = "LinkedIn" THEN "8-10 AM (Mornings)"
    ELSE IF platform = "YouTube" THEN "5-8 PM (Weekends)"
    ELSE "5-8 PM (Weekdays)"


\* suggest_posting_time without the line for YouTube
suggest_posting_time_youtube_anytime(platform) ==
    IF platform = "Twitter" THEN "5-8 PM (Weekdays)"
    ELSE IF platform = "Instagram" THEN "6-9 PM (Weekdays)"
    ELSE IF platform = "LinkedIn" THEN "8-10 AM (Mornings)"
    ELSE "Anytime"

suggest_posting_time(platform) ==
    IF platform = "Twitter" THEN "5-8 PM (Weekdays)"
    ELSE IF platform = "Instagram" THEN "6-9 PM (Weekdays)"
    ELSE IF platform = "LinkedIn" THEN "8-10 AM (Mornings)"
    ELSE IF platform = "YouTube" THEN "5-8 PM (Weekends)"
    ELSE "Anytime"

\* viral_score with the two weights exchanged
viral_score_swapped(b, t, p) ==
    LET mod   == platform_modifier(t, p)
        viral == 3 * b + 7 * mod
    IN  round_to(max2(0, min2(10000, viral)), 10)

\* viral_score weighting the base score and the modifier alike
viral_score_even_split(b, t, p) ==
    LET mod   == platform_modifier(t, p)
        viral == 5 * b + 5 * mod
    IN  round_to(max2(0, min2(10000, viral)), 10)

\* viral_score without the clamp
viral_score_unclamped(b, t, p) ==
    LET mod   == platform_modifier(t, p)
        viral == 7 * b + 3 * mod
    IN  round_to(viral, 10)

\* viral = 0.7 * float(base_score) + 0.3 * mod; max(0.0, min(1.0, viral));
\* round(viral, 3).  b and the result are in units of 1/1000.
viral_score(b, t, p) ==
    LET mod   == platform_modifier(t, p)
        viral == 7 * b + 3 * mod
    IN  round_to(max2(0, min2(10000, viral)), 10)

\* the values of the local mod in the loop over PLATFORMS
modifiers_of(t) ==
    [p \in {PLATFORMS[i] : i \in 1..Len(PLATFORMS)} |-> platform_modifier(t, p)]

\* the platform_scores dict: one entry per element of PLATFORMS
platform_scores_of(b, t) ==
    [p \in {PLATFORMS[i] : i \in 1..Len(PLATFORMS)} |-> viral_score(b, t, p)]

\* best_platform_of keeping the last maximum instead of the first
best_platform_of_last(scores) ==
    LET i == CHOOSE k \in 1..Len(PLATFORMS) :
                 /\ \A j \in 1..Len(PLATFORMS) :
                        scores[PLATFORMS[j]] <= scores[PLATFORMS[k]]
                 /\ \A j \in (k + 1)..Len(PLATFORMS) :
                        scores[PLATFORMS[j]] < scores[PLATFORMS[k]]
    IN  PLATFORMS[i]

\* max(platform_scores, key=...): the first key, in insertion order, whose
\* value no other key exceeds
best_platform_of(scores) ==
    LET i == CHOOSE k \in 1..Len(PLATFORMS) :
                 /\ \A j \in 1..Len(PLATFORMS) :
                        scores[PLATFORMS[j]] <= scores[PLATFORMS[k]]
                 /\ \A j \in 1..(k - 1) :
                        scores[PLATFORMS[j]] < scores[PLATFORMS[k]]
    IN  PLATFORMS[i]

\* platform_scores is computed once, then searched for its maximum
compute_viral_prediction(b, t) ==
    LET result(platform_scores) ==
            [platform_scores |-> platform_scores,
             best_platform   |-> best_platform_of(platform_scores)]
    IN  CHOOSE r \in {result(ps) : ps \in {platform_scores_of(b, t)}} : TRUE

\* base scores, units of 1/1000: inside [0, 1], below 0 and above 1
BaseScores == {-80, -20, 0, 3, 220, 500, 1000, 1420, 1500}

InitViral ==
    /\ WorkflowIdle
    /\ shape \in Shapes \cup {NoShape}
    /\ text = IF shape = NoShape THEN NoneText ELSE TextOf(shape)
    /\ sent = 0
    /\ scored = NotScored
    /\ base_score \in BaseScores
    /\ predicted = NotPredicted
    /\ row = NoRow
    /\ record = NoRecord
    /\ plat = NoPlatform
    /\ modifier = NoModifier
    /\ post_time = NoTime
    /\ llm = NoLLM

\* platform_scores, best_platform = compute_viral_prediction(base_score, text)
Predict ==
    /\ ~predicted.called
    /\ IF platform_modifier_raises(text)
       THEN predicted' = [NotPredicted EXCEPT !.called = TRUE, !.raised = TRUE]
       ELSE LET r == compute_viral_prediction(base_score, text)
            IN  predicted' = [called |-> TRUE,
                              raised |-> FALSE,
                              length |-> modifier_length(text),
                              mods   |-> modifiers_of(text),
                              platform_scores |-> r.platform_scores,
                              best_platform |-> r.best_platform]
    /\ UNCHANGED workflow_vars
    /\ UNCHANGED <<shape, text, sent, scored, base_score, row, record,
                 plat, modifier, post_time, llm>>

NextViral == Predict

SpecViral == InitViral /\ [][NextViral]_vars

----------------------------------------------------------------------------
(* pages/9_Prediction_Coach.py: platform_modifier and suggest_posting_time *)
(* called on their own.                                                    *)

\* platform arguments: the four of PLATFORMS, and two outside them
PlatformArgs == {"Twitter", "Instagram", "LinkedIn", "YouTube", "TikTok", ""}

InitModifier ==
    /\ WorkflowIdle
    /\ shape \in Shapes \cup {NoShape}
    /\ text = IF shape = NoShape THEN NoneText ELSE TextOf(shape)
    /\ sent = 0
    /\ scored = NotScored
    /\ base_score = 0
    /\ predicted = NotPredicted
    /\ row = NoRow
    /\ record = NoRecord
    /\ plat \in PlatformArgs
    /\ modifier = NoModifier
    /\ post_time = NoTime
    /\ llm = NoLLM

\* mod = platform_modifier(text, plat)
Modifier ==
    /\ ~modifier.called
    /\ modifier' =
           IF platform_modifier_raises(text)
           THEN [NoModifier EXCEPT !.called = TRUE, !.raised = TRUE]
           ELSE [called |-> TRUE,
                 raised |-> FALSE,
                 length |-> modifier_length(text),
                 val    |-> platform_modifier(text, plat)]
    /\ UNCHANGED workflow_vars
    /\ UNCHANGED <<shape, text, sent, scored, base_score, predicted, row,
                   record, plat, post_time, llm>>

\* post_time = suggest_posting_time(plat)
PostingTime ==
    /\ post_time = NoTime
    /\ post_time' = suggest_posting_time(plat)
    /\ UNCHANGED workflow_vars
    /\ UNCHANGED <<shape, text, sent, scored, base_score, predicted, row,
                   record, plat, modifier, llm>>

NextModifier == Modifier \/ PostingTime

SpecModifier == InitModifier /\ [][NextModifier]_vars

----------------------------------------------------------------------------
(* pages/9_Prediction_Coach.py: run_prediction_coach, one AB_Testing row.  *)

\* A cell of the sheet as ws.get_all_records() returns it: a number
\* (kind "num", v in units of 1/1000), a text float() rejects (kind "text"),
\* or no such column in the sheet (kind "absent").
NumCell(v) == [kind |-> "num", v |-> v]
TextCell == [kind |-> "text", v |-> 0]

\* row.get(key, 0) followed by float(): the number, or ValueError
float_of(cell) ==
    IF cell.kind = "num" THEN [ok |-> TRUE, v |-> cell.v]
    ELSE IF cell.kind = "absent" THEN [ok |-> TRUE, v |-> 0]
    ELSE [ok |-> FALSE, v |-> 0]

\* try: score_a = float(..); score_b = float(..)
\* except ValueError: score_a = 0.5; score_b = 0.5
parse_scores(r) ==
    LET fa == float_of(r.score_a)
        fb == float_of(r.score_b)
    IN  IF fa.ok /\ fb.ok
        THEN [score_a |-> fa.v, score_b |-> fb.v]
        ELSE [score_a |-> 500, score_b |-> 500]

\* row.get(k1, "") or row.get(k2, "")
first_nonempty(x, y) == IF is_empty(x) THEN y ELSE x

\* variant_a_wins with a strict comparison: a tie goes to B
variant_a_wins_strict(best_score_a, best_score_b) == best_score_a > best_score_b

\* if best_score_a >= best_score_b: the recommendation is variant A
variant_a_wins(best_score_a, best_score_b) == best_score_a >= best_score_b

\* the characters of the platform names and of the variant labels
chars_of(s) ==
    CASE s = "Twitter" -> <<"T", "w", "i", "t", "t", "e", "r">>
      [] s = "Instagram" -> <<"I", "n", "s", "t", "a", "g", "r", "a", "m">>
      [] s = "LinkedIn" -> <<"L", "i", "n", "k", "e", "d", "I", "n">>
      [] s = "YouTube" -> <<"Y", "o", "u", "T", "u", "b", "e">>
      [] s = "A (Original)" -> <<"A", " ", "(", "O", "r", "i", "g", "i", "n", "a", "l", ")">>
      [] s = "B (AI)" -> <<"B", " ", "(", "A", "I", ")">>

\* the decimal digit d as a character
digit_char(d) == <<"0", "1", "2", "3", "4", "5", "6", "7", "8", "9">>[d + 1]

\* the decimal digits of the natural number n
RECURSIVE digits_of(_)
digits_of(n) ==
    IF n < 10 THEN <<digit_char(n)>>
    ELSE Append(digits_of(n \div 10), digit_char(n % 10))

\* str() of a float rounded to 3 decimals, v thousandths with v >= 0: the
\* integer part, a point, and the decimals without trailing zeros, of which
\* at least one is kept ("0.7", "0.154", "1.0")
str_of_float(v) ==
    LET frac == v % 1000
        decimals ==
            IF frac % 100 = 0 THEN <<digit_char(frac \div 100)>>
            ELSE IF frac % 10 = 0
                 THEN <<digit_char(frac \div 100), digit_char((frac \div 10) % 10)>>
                 ELSE <<digit_char(frac \div 100), digit_char((frac \div 10) % 10),
                        digit_char(frac % 10)>>
    IN  digits_of(v \div 1000) \o <<".">> \o decimals

\* reason_text with the two scores exchanged
reason_text_scores_exchanged(rec_variant, best_score_a, best_score_b, rec_platform) ==
    <<"V", "a", "r", "i", "a", "n", "t", " ">> \o chars_of(rec_variant)
    \o <<" ", "w", "i", "n", "s", " ", "(", "A", "=">> \o str_of_float(best_score_b)
    \o <<",", " ", "B", "=">> \o str_of_float(best_score_a)
    \o <<")", " ", "o", "n", " ">> \o chars_of(rec_platform)

\* f"Variant {rec_variant} wins (A={best_score_a}, B={best_score_b}) on
\*   {rec_platform}"
reason_text(rec_variant, best_score_a, best_score_b, rec_platform) ==
    <<"V", "a", "r", "i", "a", "n", "t", " ">> \o chars_of(rec_variant)
    \o <<" ", "w", "i", "n", "s", " ", "(", "A", "=">> \o str_of_float(best_score_a)
    \o <<",", " ", "B", "=">> \o str_of_float(best_score_b)
    \o <<")", " ", "o", "n", " ">> \o chars_of(rec_platform)

\* the decision and the appended record, given the two variants' texts and
\* their predictions pa and pb
recommend(a_text, b_text, pa, pb) ==
    LET best_score_a == pa.platform_scores[pa.best_platform]
        best_score_b == pb.platform_scores[pb.best_platform]
        a_wins       == variant_a_wins(best_score_a, best_score_b)
        rec_variant  == IF a_wins THEN "A (Original)" ELSE "B (AI)"
        rec_platform == IF a_wins THEN pa.best_platform ELSE pb.best_platform
        final_text   == IF a_wins THEN a_text ELSE b_text
        final_score_ == IF a_wins THEN best_score_a ELSE best_score_b
    IN  [written           |-> TRUE,
         Winner            |-> rec_variant,
         Best_Platform     |-> rec_platform,
         Viral_Score       |-> final_score_,
         Recommended_Time  |-> suggest_posting_time(rec_platform),
         Winning_Text      |-> final_text,
         Recommendation_Reason |->
             reason_text(rec_variant, best_score_a, best_score_b, rec_platform),
         Score_A_Predicted |-> best_score_a,
         Score_B_Predicted |-> best_score_b,
         \* not columns of the record: what the row was computed from
         a_text |-> a_text,
         b_text |-> b_text,
         score_a |-> pa.base,
         score_b |-> pb.base,
         p_scores_a  |-> pa.platform_scores,
         p_scores_b  |-> pb.platform_scores,
         best_plat_a |-> pa.best_platform,
         best_plat_b |-> pb.best_platform]

\* a prediction together with the base score it was computed from
prediction_for(b, t) ==
    LET tagged(p) == [base |-> b, platform_scores |-> p.platform_scores,
                      best_platform |-> p.best_platform]
    IN  CHOOSE r \in {tagged(p) : p \in {compute_viral_prediction(b, t)}} : TRUE

\* the body of the loop over the rows of AB_Testing
coach_row(r) ==
    LET a_text == first_nonempty(r.A_Text, r.Variant_A)
        b_text == first_nonempty(r.B_Text, r.Variant_B)
        sc     == parse_scores(r)
    IN  CHOOSE rec \in
            {recommend(a_text, b_text, pa, pb) :
                pa \in {prediction_for(sc.score_a, a_text)},
                pb \in {prediction_for(sc.score_b, b_text)}} : TRUE

\* texts of the variants of a row
RowTexts ==
    { SampleText(1, 1, 0), SampleText(7, 1, 0), SampleText(5, 1, 20),
      SampleText(9, 1, 40), SampleText(10, 1, 8), SampleText(1, 1, 51) }

\* cells of the Score A and Score B columns
ScoreCells == {NumCell(v) : v \in {0, 220, 610, 1000, 1420}} \cup {TextCell, NoCell}

\* the column names the revisions of the A/B test write
Schemas == {"page/7", "pages/8"}

RowOf(schema, a, b, ca, cb) ==
    IF schema = "page/7"
    THEN [A_Text |-> a, B_Text |-> b, Variant_A |-> <<>>, Variant_B |-> <<>>,
          score_a |-> ca, score_b |-> cb]
    ELSE [A_Text |-> <<>>, B_Text |-> <<>>, Variant_A |-> a, Variant_B |-> b,
          score_a |-> ca, score_b |-> cb]

InitCoach ==
    /\ WorkflowIdle
    /\ shape = NoShape
    /\ text = <<>>
    /\ sent = 0
    /\ scored = NotScored
    /\ base_score = 0
    /\ predicted = NotPredicted
    /\ row \in {RowOf(s, a, b, ca, cb) :
                   s \in Schemas, a \in RowTexts, b \in RowTexts,
                   ca \in ScoreCells, cb \in ScoreCells}
    /\ record = NoRecord
    /\ plat = NoPlatform
    /\ modifier = NoModifier
    /\ post_time = NoTime
    /\ llm = NoLLM

\* results.append({...}) for the row
CoachRow ==
    /\ ~record.written
    /\ record' = coach_row(row)
    /\ UNCHANGED workflow_vars
    /\ UNCHANGED <<shape, text, sent, scored, base_score, predicted, row,
                 plat, modifier, post_time, llm>>

NextCoach == CoachRow

SpecCoach == InitCoach /\ [][NextCoach]_vars

----------------------------------------------------------------------------
(* Asking an LLM: generate_marketing_content (4_Content_Generator.py),     *)
(* optimize_content (5_Content_Optimizer.py) and llm_variant               *)
(* (7_AB_Testing.py, 8_AB_Testing.py), in the revisions of pages/ and of   *)
(* page/.                                                                  *)

PRIMARY_MODEL == "meta-llama/Meta-Llama-3-8B-Instruct"

FALLBACK_MODEL == "mistralai/Mistral-7B-Instruct-v0.3"

\* the models tried with the fallback model first
MODELS_fallback_first == <<FALLBACK_MODEL, PRIMARY_MODEL>>

\* for model in (PRIMARY_MODEL, FALLBACK_MODEL)
MODELS == <<PRIMARY_MODEL, FALLBACK_MODEL>>

\* the value None where a model name or an error message is expected
PyNone == "None"

\* a component the function's return value does not have
NotReturned == "not returned"

LLMFunctions ==
    { "pages/4_Content_Generator.generate_marketing_content",
      "pages/5_Content_Optimizer.optimize_content",
      "pages/7_AB_Testing.llm_variant",
      "pages/8_AB_Testing.llm_variant",
      "page/4_Content_Generator.generate_marketing_content",
      "page/5_Content_Optimizer.optimize_content",
      "page/7_AB_Testing.llm_variant" }

\* the function starts with `if not HF_TOKEN: return ...`
checks_token(fn) ==
    fn \in { "pages/4_Content_Generator.generate_marketing_content",
             "pages/5_Content_Optimizer.optimize_content",
             "pages/7_AB_Testing.llm_variant",
             "pages/8_AB_Testing.llm_variant" }

\* the function returns (text, model, error); llm_variant returns the text
\* alone
returns_triple(fn) ==
    fn \notin { "pages/7_AB_Testing.llm_variant",
                "pages/8_AB_Testing.llm_variant",
                "page/7_AB_Testing.llm_variant" }

missing_token_message(fn) ==
    IF fn = "pages/4_Content_Generator.generate_marketing_content"
    THEN "Missing HF_TOKEN"
    ELSE "Missing HF Token"

all_failed_message(fn) ==
    IF fn = "page/5_Content_Optimizer.optimize_content"
    THEN "Both models failed."
    ELSE "All models failed."

\* str.strip(): s without its leading and trailing whitespace
strip(s) ==
    LET kept == {i \in 1..Len(s) : s[i] \notin Whitespace}
    IN  IF kept = {} THEN <<>>
        ELSE SubSeq(s, CHOOSE i \in kept : \A j \in kept : i <= j,
                       CHOOSE i \in kept : \A j \in kept : j <= i)

\* return text, model, None  /  return rsp...strip()
returned_text(fn, content, model) ==
    IF returns_triple(fn)
    THEN [text |-> strip(content), model |-> model, error |-> PyNone]
    ELSE [text |-> strip(content), model |-> NotReturned, error |-> NotReturned]

\* return None, None, message  /  return None
returned_failure(fn, message) ==
    IF returns_triple(fn)
    THEN [text |-> NoneText, model |-> PyNone, error |-> message]
    ELSE [text |-> NoneText, model |-> NotReturned, error |-> NotReturned]

\* message["content"] of the responses a model gives
Contents ==
    { <<>>,
      <<" ">>,
      <<"T", "r", "y", " ", "n", "o", "w">>,
      <<" ", "T", "r", "y", " ", "n", "o", "w", "\n">> }

\* what one pass through the try block meets: the call raises, the call
\* returns a response whose content is None, so that .strip() raises, or
\* the call returns a response with a content
Outcomes ==
    {[kind |-> "raise", content |-> NoneText],
     [kind |-> "no_content", content |-> NoneText]}
    \cup {[kind |-> "ok", content |-> c] : c \in Contents}

NoReturn == [text |-> <<>>, model |-> "none", error |-> "none"]

InitLLM ==
    /\ WorkflowIdle
    /\ shape = NoShape
    /\ text = <<>>
    /\ sent = 0
    /\ scored = NotScored
    /\ base_score = 0
    /\ predicted = NotPredicted
    /\ row = NoRow
    /\ record = NoRecord
    /\ plat = NoPlatform
    /\ modifier = NoModifier
    /\ post_time = NoTime
    /\ llm \in {[fn |-> fn, HF_TOKEN |-> tok, pc |-> "guard", i |-> 1,
                  calls |-> <<>>, ret |-> NoReturn] :
                    fn \in LLMFunctions, tok \in BOOLEAN}

\* if not HF_TOKEN: return None, None, "Missing HF Token"
LLMGuard ==
    /\ llm.fn # "none"
    /\ llm.pc = "guard"
    /\ llm' = IF checks_token(llm.fn) /\ ~llm.HF_TOKEN
              THEN [llm EXCEPT !.pc = "done",
                               !.ret = returned_failure(llm.fn,
                                           missing_token_message(llm.fn))]
              ELSE [llm EXCEPT !.pc = "loop"]
    /\ UNCHANGED workflow_vars
    /\ UNCHANGED <<shape, text, sent, scored, base_score, predicted, row,
                   record, plat, modifier, post_time>>

\* one pass of the loop over the models: the try block, then the return of
\* the text, the next model, or the return after the loop
LLMAttempt ==
    /\ llm.fn # "none"
    /\ llm.pc = "loop"
    /\ \E out \in Outcomes :
           LET model  == MODELS[llm.i]
               called == Append(llm.calls,
                                [model |-> model, kind |-> out.kind,
                                 content |-> out.content])
           IN  llm' = IF out.kind = "ok"
                      THEN [llm EXCEPT !.pc = "done", !.calls = called,
                                       !.ret = returned_text(llm.fn, out.content, model)]
                      ELSE IF llm.i < Len(MODELS)
                      THEN [llm EXCEPT !.i = llm.i + 1, !.calls = called]
                      ELSE [llm EXCEPT !.pc = "done", !.calls = called,
                                       !.ret = returned_failure(llm.fn,
                                                   all_failed_message(llm.fn))]
    /\ UNCHANGED workflow_vars
    /\ UNCHANGED <<shape, text, sent, scored, base_score, predicted, row,
                   record, plat, modifier, post_time>>

NextLLM == LLMGuard \/ LLMAttempt

SpecLLM == InitLLM /\ [][NextLLM]_vars


----------------------------------------------------------------------------
(* A session: the scorer and the predictor called again and again, on      *)
(* texts in any order. The analyzer sid is built once, when the module is  *)
(* loaded; polarity_scores looks the words of the text up in its lexicon.  *)

\* largest number of calls in a session
MaxEvals == 3

\* the texts scored in a session
SessionTexts == {SampleText(1, 1, 0), SampleText(6, 1, 0), SampleText(7, 1, 8)}

\* compound sentiments the analyzer may give a text of a session
SessionSentiments == {-8625, 4404}

\* base scores passed to the predictor in a session
SessionBaseScores == {220, 610}

\* the revisions of final_score
Revisions == {"page/7", "pages/7", "pages/8"}

\* polarity_scores reading the number of calls made so far
polarity_scores_adapting(t) == sid[t] - 1000 * Len(evals)

\* sid.polarity_scores(text)["compound"]
polarity_scores(t) == sid[t]

\* final_score(text) of a revision
final_score(rev, t) ==
    CASE rev = "page/7"  -> final_score_page7(t, polarity_scores(t))
      [] rev = "pages/7" -> final_score_pages7(t, polarity_scores(t))
      [] rev = "pages/8" -> final_score_pages8(t, polarity_scores(t))

\* SentimentIntensityAnalyzer(): one compound value for each text
Analyzers ==
    {a \in [SessionTexts -> SessionSentiments \cup {0}] :
        \A t \in SessionTexts :
            a[t] \in (IF Len(split(t)) = 0 THEN {0} ELSE SessionSentiments)}

InitSession ==
    /\ shape = NoShape
    /\ text = <<>>
    /\ sent = 0
    /\ scored = NotScored
    /\ base_score = 0
    /\ predicted = NotPredicted
    /\ row = NoRow
    /\ record = NoRecord
    /\ plat = NoPlatform
    /\ modifier = NoModifier
    /\ post_time = NoTime
    /\ llm = NoLLM
    /\ sid \in Analyzers
    /\ evals = <<>>
    /\ sheet = NoSheet
    /\ slack = <<>>
    /\ run = NoRun
    /\ parsed = NotParsed

\* final_score(text) in one of the revisions
SessionScore ==
    /\ sid # NoSid
    /\ Len(evals) < MaxEvals
    /\ \E rev \in Revisions, t \in SessionTexts :
           evals' = Append(evals,
                           [fn |-> "final_score", rev |-> rev, text |-> t,
                            base_score |-> 0,
                            val |-> final_score(rev, t),
                            platform_scores |-> <<>>,
                            best_platform |-> "none"])
    /\ UNCHANGED scoring_vars
    /\ UNCHANGED <<sid, sheet, slack, run, parsed>>

\* compute_viral_prediction(base_score, text)
SessionPredict ==
    /\ sid # NoSid
    /\ Len(evals) < MaxEvals
    /\ \E b \in SessionBaseScores, t \in SessionTexts :
           LET p == prediction_for(b, t)
           IN  evals' = Append(evals,
                               [fn |-> "compute_viral_prediction",
                                rev |-> "pages/9", text |-> t,
                                base_score |-> b,
                                val |-> 0,
                                platform_scores |-> p.platform_scores,
                                best_platform |-> p.best_platform])
    /\ UNCHANGED scoring_vars
    /\ UNCHANGED <<sid, sheet, slack, run, parsed>>

NextSession == SessionScore \/ SessionPredict

SpecSession == InitSession /\ [][NextSession]_vars


----------------------------------------------------------------------------
(* The spreadsheet. A tab is absent, or holds rows; a row is a record, the  *)
(* header row one of kind "header" with the column names.                  *)

AB_TAB == "AB_Testing"
OUTPUT_TAB == "Prediction_Coach"

\* a tab sheet.worksheet(name) raises WorksheetNotFound for
Absent == [exists |-> FALSE, rows |-> <<>>]

\* a tab holding the rows
Tab(rows) == [exists |-> TRUE, rows |-> rows]

\* sheet.add_worksheet(title, rows, cols): a tab without values
add_worksheet == Tab(<<>>)

\* ws.clear() leaving the values where they are
clear_keeping(ws) == ws

\* ws.clear(): the tab stays, its values go
clear(ws) == Tab(<<>>)

\* ws.update("A1", values): the values written from the first row on; rows
\* of the tab below them stay
update(ws, values) ==
    Tab(values \o SubSeq(ws.rows, Len(values) + 1, Len(ws.rows)))

\* ws.append_rows(values): the values written below the last row
append_rows(ws, values) == Tab(ws.rows \o values)

\* the header row with the column names cols
HeaderRow(cols) == [kind |-> "header", cols |-> cols]

\* ws.get_all_records(): the rows below the first row, which gives the keys;
\* none for a tab without values
get_all_records(ws) ==
    IF Len(ws.rows) <= 1 THEN <<>> ELSE SubSeq(ws.rows, 2, Len(ws.rows))

\* send_slack(text)
send_slack(log, message) == Append(log, message)

----------------------------------------------------------------------------
(* The A/B test: create_ab_tests of page/7_AB_Testing.py, and run_ab_test  *)
(* with upload_results behind the button of pages/7_AB_Testing.py and of   *)
(* pages/8_AB_Testing.py.                                                  *)

\* largest number of rows of Generated_Marketing_Content in a run
MaxItems == 2

\* largest number of runs
MaxRuns == 2

\* a row of Generated_Marketing_Content with what llm_variant returns for it
\* (None, or the stripped response): a row the LLM fails for, one it returns
\* unchanged, one it rewrites, and a row without content
ABItems ==
    { [original |-> SampleText(6, 1, 0), variant |-> NoneText],
      [original |-> SampleText(6, 1, 0), variant |-> SampleText(6, 1, 0)],
      [original |-> SampleText(6, 1, 0), variant |-> SampleText(7, 1, 8)],
      [original |-> SampleText(1, 1, 0), variant |-> SampleText(7, 1, 8)] }

\* the rows of Generated_Marketing_Content: up to MaxItems rows
ABInputs == UNION {[1..n -> ABItems] : n \in 0..MaxItems}

\* `not x` for a text or None
falsy(x) == x = NoneText \/ is_empty(x)

\* the rows of df with their index: for idx, row in df.iterrows()
iterrows(items) == [i \in 1..Len(items) |-> [idx |-> i - 1, item |-> items[i]]]

HEADERS_PAGE7 ==
    <<"Test ID", "Timestamp", "Product Info", "Content Type", "Tone",
      "A_Text", "B_Text", "Score A", "Score B", "Winner">>

\* page/7: winner = "A" if score_a > score_b else "B"
winner_page7(score_a, score_b) == IF score_a > score_b THEN "A" ELSE "B"

\* pages/7, pages/8: winner = "Variant A" if score_a >= score_b else "Variant B"
winner_pages(score_a, score_b) ==
    IF score_a >= score_b THEN "Variant A" ELSE "Variant B"

\* page/7: the list appended to results for a row with a variant, at time now
result_page7(it, now) ==
    LET score_a == final_score("page/7", it.item.original)
        score_b == final_score("page/7", it.item.variant)
    IN  [kind    |-> "page/7",
         Test_ID |-> <<now, it.idx>>,
         Timestamp |-> now,
         A_Text  |-> it.item.original,
         B_Text  |-> it.item.variant,
         Score_A |-> NumCell(score_a),
         Score_B |-> NumCell(score_b),
         Winner  |-> winner_page7(score_a, score_b)]

\* page/7: results after the loop; a row without variant is skipped
results_page7(items, now) ==
    LET has_variant(it) == ~falsy(it.item.variant)
        kept == SelectSeq(iterrows(items), has_variant)
    IN  [k \in 1..Len(kept) |-> result_page7(kept[k], now)]

\* page/7: the message sent for a result
instant_message(r) ==
    [text |-> "Instant A/B Test Completed", Winner |-> r.Winner,
     A |-> r.Score_A.v, B |-> r.Score_B.v]

\* page/7: if results: ab_ws.append_rows(results)
written_page7(ab_ws, results) ==
    IF Len(results) > 0 THEN append_rows(ab_ws, results) ELSE ab_ws

\* page/7: create_ab_tests() on the rows items of the generated content
create_ab_tests(sh, log, items, now) ==
    LET ab_ws0  == IF sh[AB_TAB].exists THEN clear(sh[AB_TAB]) ELSE add_worksheet
        ab_ws1  == update(ab_ws0, <<HeaderRow(HEADERS_PAGE7)>>)
        results == results_page7(items, now)
        messages == [k \in 1..Len(results) |-> instant_message(results[k])]
    IN  [sheet   |-> [sh EXCEPT ![AB_TAB] = written_page7(ab_ws1, results)],
         slack   |-> send_slack(log \o messages,
                        [text |-> "All A/B Tests Completed (Replaced old results)."]),
         results |-> results]


\* the value of the decimal digit c
digit_value(c) == CHOOSE d \in 0..9 : digit_char(d) = c

\* int() of a sequence of decimal digits
RECURSIVE nat_of(_)
nat_of(s) ==
    IF Len(s) = 0 THEN 0
    ELSE 10 * nat_of(SubSeq(s, 1, Len(s) - 1)) + digit_value(s[Len(s)])

\* str() of a float rounded to 3 decimals, v thousandths of either sign
str_of_signed(v) == IF v < 0 THEN <<"-">> \o str_of_float(0 - v) ELSE str_of_float(v)

\* a cell holding the characters s
StrCell(s) == [kind |-> "str", s |-> s]

\* DataFrame.astype(str) on a number cell
astype_str(cell) == IF cell.kind = "num" THEN StrCell(str_of_signed(cell.v)) ELSE cell

\* gspread's numericise on the characters of a float with up to 3 decimals:
\* the number, in thousandths
number_of(s) ==
    LET neg  == Len(s) > 0 /\ s[1] = "-"
        body == IF neg THEN Tail(s) ELSE s
        dot  == CHOOSE i \in 1..Len(body) : body[i] = "."
        fp   == SubSeq(body, dot + 1, Len(body))
        frac == nat_of(fp) * (CASE Len(fp) = 1 -> 100
                                [] Len(fp) = 2 -> 10
                                [] Len(fp) = 3 -> 1)
        mag  == 1000 * nat_of(SubSeq(body, 1, dot - 1)) + frac
    IN  IF neg THEN 0 - mag ELSE mag

\* a cell as get_all_records() returns it
numericise(cell) == IF cell.kind = "str" THEN NumCell(number_of(cell.s)) ELSE cell

HEADERS_PAGES ==
    <<"Test ID", "Timestamp", "Product", "Content Type",
      "Variant A (Original)", "Variant B (AI)", "Score A", "Score B", "Winner">>

\* pages/7, pages/8: the dict appended to results for a row, at time now
result_pages(rev, it, now) ==
    LET score_a == final_score(rev, it.item.original)
        score_b == final_score(rev, it.item.variant)
    IN  [kind    |-> "pages",
         Test_ID |-> <<now, it.idx>>,
         Timestamp |-> now,
         Variant_A |-> it.item.original,
         Variant_B |-> it.item.variant,
         Score_A |-> NumCell(score_a),
         Score_B |-> NumCell(score_b),
         Winner  |-> winner_pages(score_a, score_b)]

\* the Generated_Marketing_Content tab as a run finds it
Generated(items) == [exists |-> TRUE, items |-> items]
NoGenerated == [exists |-> FALSE, items |-> <<>>]

\* pages/7, pages/8: run_ab_test(); rows without content or without variant
\* are skipped
run_ab_test(rev, generated, now) ==
    LET usable(it) == ~falsy(it.item.original) /\ ~falsy(it.item.variant)
        kept == SelectSeq(iterrows(generated.items), usable)
    IN  IF ~generated.exists \/ Len(generated.items) = 0 THEN <<>>
        ELSE [k \in 1..Len(kept) |-> result_pages(rev, kept[k], now)]

\* df.astype(str).values.tolist() for the results of the A/B test
values_pages(results) ==
    [k \in 1..Len(results) |->
        [results[k] EXCEPT !.Score_A = astype_str(@), !.Score_B = astype_str(@)]]

\* pages/7, pages/8: upload_results(df)
upload_results(sh, results) ==
    LET ws == IF sh[AB_TAB].exists THEN clear(sh[AB_TAB]) ELSE add_worksheet
    IN  [sh EXCEPT ![AB_TAB] =
            update(ws, <<HeaderRow(HEADERS_PAGES)>> \o values_pages(results))]

\* the number of results with the winner w
wins(results, w) == Cardinality({k \in 1..Len(results) : results[k].Winner = w})

\* pages/7, pages/8: the button of the page
ab_testing_page(rev, sh, log, generated, now) ==
    LET results == run_ab_test(rev, generated, now)
    IN  IF Len(results) = 0
        THEN [sheet |-> sh, slack |-> log, results |-> results]
        ELSE [sheet   |-> upload_results(sh, results),
              slack   |-> send_slack(log,
                              [text   |-> "A/B Testing Done",
                               a_wins |-> wins(results, "Variant A"),
                               b_wins |-> wins(results, "Variant B")]),
              results |-> results]

----------------------------------------------------------------------------
(* The Prediction Coach page: run_prediction_coach over the rows of        *)
(* AB_Testing, then upload_predictions.                                    *)

\* a record of AB_Testing as row.get reads it; a record with other columns
\* has none of the keys
row_of_record(r) ==
    IF r.kind = "page/7"
    THEN RowOf("page/7", r.A_Text, r.B_Text,
               numericise(r.Score_A), numericise(r.Score_B))
    ELSE IF r.kind = "pages"
    THEN RowOf("pages/8", r.Variant_A, r.Variant_B,
               numericise(r.Score_A), numericise(r.Score_B))
    ELSE NoRow

\* pages/9: the dict appended to results for a record of AB_Testing
result_coach(r, now) ==
    LET rec == coach_row(row_of_record(r))
    IN  [kind              |-> "pages/9",
         Timestamp         |-> now,
         Winner            |-> rec.Winner,
         Best_Platform     |-> rec.Best_Platform,
         Viral_Score       |-> NumCell(rec.Viral_Score),
         Recommended_Time  |-> rec.Recommended_Time,
         Winning_Text      |-> rec.Winning_Text,
         Recommendation_Reason |-> rec.Recommendation_Reason,
         Score_A_Predicted |-> NumCell(rec.Score_A_Predicted),
         Score_B_Predicted |-> NumCell(rec.Score_B_Predicted)]

\* pages/9: run_prediction_coach()
run_prediction_coach(sh, now) ==
    LET records == get_all_records(sh[AB_TAB])
    IN  IF ~sh[AB_TAB].exists \/ Len(records) = 0 THEN <<>>
        ELSE [k \in 1..Len(records) |-> result_coach(records[k], now)]

HEADERS_COACH ==
    <<"Timestamp", "Product", "Winner", "Best Platform", "Viral Score",
      "Recommended Time", "Winning Text", "Recommendation_Reason",
      "Score_A_Predicted", "Score_B_Predicted">>

\* df.astype(str).values.tolist() for the results of the coach
values_coach(results) ==
    [k \in 1..Len(results) |->
        [results[k] EXCEPT !.Viral_Score = astype_str(@),
                           !.Score_A_Predicted = astype_str(@),
                           !.Score_B_Predicted = astype_str(@)]]

\* what may happen to the requests of upload_predictions: all succeed; the
\* request for the tab, or the one clearing it, raises an error other than
\* WorksheetNotFound; ws.update raises
UploadOutcomes == {"ok", "worksheet_raises", "update_raises"}

\* pages/9: upload_predictions(sheet, df); every exception is caught and
\* shown with st.error
upload_predictions(sh, results, outcome) ==
    LET ws == IF sh[OUTPUT_TAB].exists THEN clear(sh[OUTPUT_TAB]) ELSE add_worksheet
    IN  CASE outcome = "worksheet_raises" -> sh
          [] outcome = "update_raises" -> [sh EXCEPT ![OUTPUT_TAB] = ws]
          [] outcome = "ok" ->
                 [sh EXCEPT ![OUTPUT_TAB] =
                     update(ws, <<HeaderRow(HEADERS_COACH)>> \o values_coach(results))]

\* results_df["Best Platform"].mode()[0]: the most frequent platform, the
\* first in alphabetical order of those
top_platform_of(results) ==
    LET sorted == <<"Instagram", "LinkedIn", "Twitter", "YouTube">>
        count(p) == Cardinality({k \in 1..Len(results) : results[k].Best_Platform = p})
        first == CHOOSE i \in 1..4 :
                     /\ \A j \in 1..4 : count(sorted[j]) <= count(sorted[i])
                     /\ \A j \in 1..(i - 1) : count(sorted[j]) < count(sorted[i])
    IN  sorted[first]

\* pages/9: the button of the page
prediction_coach_page(sh, log, outcome, now) ==
    LET results == run_prediction_coach(sh, now)
    IN  IF Len(results) = 0
        THEN [sheet |-> sh, slack |-> log, results |-> results]
        ELSE [sheet   |-> upload_predictions(sh, results, outcome),
              slack   |-> send_slack(log,
                              [text |-> "Prediction Coach finished",
                               top_platform |-> top_platform_of(results)]),
              results |-> results]

----------------------------------------------------------------------------
(* Runs of the A/B test and of the coach, one after the other, on one      *)
(* spreadsheet.                                                            *)

\* rows an earlier program left in a tab
OldRows == << HeaderRow(<<"Old">>), [kind |-> "old", n |-> 1], [kind |-> "old", n |-> 2] >>

\* a tab before the first run: absent, without values, or with old rows
OldTabs == {Absent, Tab(<<>>), Tab(OldRows)}

\* the analyzer of the runs
SheetsAnalyzer == [t \in SessionTexts |-> IF Len(split(t)) = 0 THEN 0 ELSE 4404]

InitSheets ==
    /\ shape = NoShape
    /\ text = <<>>
    /\ sent = 0
    /\ scored = NotScored
    /\ base_score = 0
    /\ predicted = NotPredicted
    /\ row = NoRow
    /\ record = NoRecord
    /\ plat = NoPlatform
    /\ modifier = NoModifier
    /\ post_time = NoTime
    /\ llm = NoLLM
    /\ sid = SheetsAnalyzer
    /\ evals = <<>>
    /\ \E ab \in OldTabs, out \in OldTabs :
           sheet = [tab \in {AB_TAB, OUTPUT_TAB} |->
                       IF tab = AB_TAB THEN ab ELSE out]
    /\ slack = <<>>
    /\ run = [fn |-> "none", now |-> 0, input |-> NoGenerated, results |-> <<>>,
              outcome |-> "none", before |-> <<>>, slack_before |-> <<>>]
    /\ parsed = NotParsed

\* what a run leaves in the state: the handler's effect, and for reference
\* the generated content it read, its results, and the spreadsheet and the
\* Slack log it started from
Ran(fn, outcome, input, effect) ==
    /\ sheet' = effect.sheet
    /\ slack' = effect.slack
    /\ run' = [fn |-> fn, now |-> run.now + 1, input |-> input,
               results |-> effect.results, outcome |-> outcome,
               before |-> sheet, slack_before |-> slack]
    /\ UNCHANGED scoring_vars
    /\ UNCHANGED <<sid, evals, parsed>>

\* page/7_AB_Testing.py --create
CreateABTests ==
    /\ sheet # NoSheet
    /\ AB_TAB \in DOMAIN sheet
    /\ run.now < MaxRuns
    /\ \E items \in ABInputs :
           Ran("page/7", "ok", Generated(items),
               create_ab_tests(sheet, slack, items, run.now + 1))

\* the button of pages/7_AB_Testing.py and of pages/8_AB_Testing.py
ABTestingPage ==
    /\ sheet # NoSheet
    /\ AB_TAB \in DOMAIN sheet
    /\ run.now < MaxRuns
    /\ \E rev \in {"pages/7", "pages/8"},
          generated \in {NoGenerated} \cup {Generated(items) : items \in ABInputs} :
           Ran(rev, "ok", generated,
               ab_testing_page(rev, sheet, slack, generated, run.now + 1))

\* the button of pages/9_Prediction_Coach.py
PredictionCoachPage ==
    /\ sheet # NoSheet
    /\ AB_TAB \in DOMAIN sheet
    /\ run.now < MaxRuns
    /\ \E outcome \in UploadOutcomes :
           Ran("pages/9", outcome, NoGenerated,
               prediction_coach_page(sheet, slack, outcome, run.now + 1))

NextSheets == CreateABTests \/ ABTestingPage \/ PredictionCoachPage

SpecSheets == InitSheets /\ [][NextSheets]_vars


----------------------------------------------------------------------------
(* The optimizer's parser: parse_optimization_output of                    *)
(* pages/5_Content_Optimizer.py.                                           *)

\* largest number of lines of an LLM output
MaxLines == 3

\* str.replace(old, new): every occurrence of old, from the left, replaced
RECURSIVE replace(_, _, _)
replace(s, old, new) ==
    IF Len(s) < Len(old) THEN s
    ELSE IF SubSeq(s, 1, Len(old)) = old
         THEN new \o replace(SubSeq(s, Len(old) + 1, Len(s)), old, new)
         ELSE <<s[1]>> \o replace(Tail(s), old, new)

\* str.split('\n'): the pieces between the line feeds, empty ones included
RECURSIVE split_lines(_)
split_lines(s) ==
    IF \A i \in 1..Len(s) : s[i] # "\n" THEN <<s>>
    ELSE LET nl == CHOOSE i \in 1..Len(s) :
                       s[i] = "\n" /\ \A j \in 1..(i - 1) : s[j] # "\n"
         IN  <<SubSeq(s, 1, nl - 1)>> \o split_lines(SubSeq(s, nl + 1, Len(s)))

OPTIMIZED_MARK == <<"O", "p", "t", "i", "m", "i", "z", "e", "d", " ", "C", "o", "n",
          "t", "e", "n", "t", ":">>
NOTES_MARK == <<"I", "m", "p", "r", "o", "v", "e", "m", "e", "n", "t", " ", "N",
          "o", "t", "e", "s", ":">>
NOT_AVAILABLE == <<"N", "/", "A">>
AUTO_PARSED == <<"A", "u", "t", "o", "-", "p", "a", "r", "s", "e", "d", " ", "r",
          "a", "w", " ", "o", "u", "t", "p", "u", "t">>

\* the locals of the parser before the loop
ParserStart == [current_section |-> "None", optimized |-> <<>>, notes |-> <<>>,
                score |-> <<>>]

\* one pass of the loop over the lines
parse_line(st, raw_line) ==
    LET line == strip(raw_line)
    IN  IF contains(OPTIMIZED_MARK, line)
        THEN [st EXCEPT !.current_section = "optimized",
                        !.optimized = @ \o strip(replace(line, OPTIMIZED_MARK, <<>>))
                                        \o <<" ">>]
        ELSE IF contains(NOTES_MARK, line)
        THEN [st EXCEPT !.current_section = "notes",
                        !.notes = @ \o strip(replace(line, NOTES_MARK, <<>>)) \o <<" ">>]
        ELSE IF contains(<<"S", "c", "o", "r", "e">>, line)
                /\ contains(<<"o", "u", "t", " ", "o", "f", " ", "1", "0">>, line)
        THEN [st EXCEPT !.current_section = "score",
                        !.score =
                            strip(replace(replace(replace(line,
                                <<"S", "c", "o", "r", "e">>, <<>>),
                                <<"(", "o", "u", "t", " ", "o", "f", " ", "1", "0", ")">>, <<>>),
                                <<":">>, <<>>))]
        ELSE IF st.current_section = "optimized"
        THEN [st EXCEPT !.optimized = @ \o line \o <<" ">>]
        ELSE IF st.current_section = "notes"
        THEN [st EXCEPT !.notes = @ \o line \o <<" ">>]
        ELSE st

\* the locals of the parser after the loop over parts[1..n]
RECURSIVE parse_lines(_, _)
parse_lines(parts, n) ==
    IF n = 0 THEN ParserStart ELSE parse_line(parse_lines(parts, n - 1), parts[n])

\* the result of the parser from its locals after the loop, without the
\* fallback to the raw output
parsed_from_without_fallback(output, st) ==
    [called |-> TRUE, output |-> output, gathered |-> st.optimized,
     optimized |-> strip(st.optimized), notes |-> strip(st.notes),
     score |-> strip(st.score)]

\* if not optimized.strip(): optimized = output; notes = "Auto-parsed raw
\* output"; return optimized.strip(), notes.strip(), score.strip()
parsed_from(output, st) ==
    IF is_empty(strip(st.optimized))
    THEN [called |-> TRUE, output |-> output, gathered |-> st.optimized,
          optimized |-> strip(output), notes |-> strip(AUTO_PARSED),
          score |-> strip(st.score)]
    ELSE [called |-> TRUE, output |-> output, gathered |-> st.optimized,
          optimized |-> strip(st.optimized), notes |-> strip(st.notes),
          score |-> strip(st.score)]

\* parse_optimization_output(output)
parse_optimization_output(output) ==
    IF falsy(output)
    THEN [called |-> TRUE, output |-> output, gathered |-> <<>>,
          optimized |-> NOT_AVAILABLE, notes |-> NOT_AVAILABLE,
          score |-> NOT_AVAILABLE]
    ELSE LET parts == split_lines(output)
         IN  CHOOSE r \in {parsed_from(output, st) :
                              st \in {parse_lines(parts, Len(parts))}} : TRUE

\* lines an LLM answers with: the sections asked for, on one line or with
\* the text on the next line, lines without mark, empty and blank lines,
\* marks in Markdown, in lower case and in other words
OutputLines ==
    << <<"O", "p", "t", "i", "m", "i", "z", "e", "d", " ", "C", "o", "n",
          "t", "e", "n", "t", ":", " ", "B", "u", "y", " ", "n", "o",
          "w">>,
       <<"O", "p", "t", "i", "m", "i", "z", "e", "d", " ", "C", "o", "n",
          "t", "e", "n", "t", ":">>,
       <<"B", "u", "y", " ", "n", "o", "w">>,
       <<"I", "m", "p", "r", "o", "v", "e", "m", "e", "n", "t", " ", "N",
          "o", "t", "e", "s", ":", " ", "a", "d", "d", "e", "d", " ",
          "C", "T", "A">>,
       <<"S", "c", "o", "r", "e", " ", "(", "o", "u", "t", " ", "o", "f",
          " ", "1", "0", ")", ":", " ", "8">>,
       <<>>,
       <<" ", " ">>,
       <<"*", "*", "O", "p", "t", "i", "m", "i", "z", "e", "d", " ", "C",
          "o", "n", "t", "e", "n", "t", ":", "*", "*">>,
       <<"o", "p", "t", "i", "m", "i", "z", "e", "d", " ", "c", "o", "n",
          "t", "e", "n", "t", ":", " ", "b", "u", "y">>,
       <<"S", "c", "o", "r", "e", ":", " ", "8", " ", "o", "u", "t", " ",
          "o", "f", " ", "1", "0">> >>

\* the lines joined by line feeds
RECURSIVE join_lines(_)
join_lines(ls) ==
    IF Len(ls) = 0 THEN <<>>
    ELSE IF Len(ls) = 1 THEN ls[1]
    ELSE ls[1] \o <<"\n">> \o join_lines(Tail(ls))

\* the outputs of n lines
OutputsOf(n) ==
    {join_lines([k \in 1..n |-> OutputLines[ix[k]]]) :
        ix \in [1..n -> 1..Len(OutputLines)]}

\* the outputs handed to the parser: None, and up to MaxLines lines
ParserInputs == {NoneText} \cup UNION {OutputsOf(n) : n \in 1..MaxLines}

InitParse ==
    /\ shape = NoShape
    /\ text = <<>>
    /\ sent = 0
    /\ scored = NotScored
    /\ base_score = 0
    /\ predicted = NotPredicted
    /\ row = NoRow
    /\ record = NoRecord
    /\ plat = NoPlatform
    /\ modifier = NoModifier
    /\ post_time = NoTime
    /\ llm = NoLLM
    /\ sid = NoSid
    /\ evals = <<>>
    /\ sheet = NoSheet
    /\ slack = <<>>
    /\ \E output \in ParserInputs :
           run = [fn |-> "pages/5.parse_optimization_output", output |-> output]
    /\ parsed = NotParsed

\* opt_text, notes, score = parse_optimization_output(output)
ParseOutput ==
    /\ run.fn = "pages/5.parse_optimization_output"
    /\ ~parsed.called
    /\ parsed' = parse_optimization_output(run.output)
    /\ UNCHANGED scoring_vars
    /\ UNCHANGED <<sid, evals, sheet, slack, run>>

NextParse == ParseOutput

SpecParse == InitParse /\ [][NextParse]_vars


----------------------------------------------------------------------------
(* The optimizer page: the button of pages/5_Content_Optimizer.py, with    *)
(* upload_optimized_results.                                               *)

\* largest number of runs of the optimizer page
MaxUploads == 3

OPTIMIZED_TAB == "Optimized_Content"

OPTIMIZER == "pages/5_Content_Optimizer.optimize_content"

HEADERS_OPTIMIZED ==
    <<"Timestamp", "Product Info", "Content Type", "Tone", "Keywords",
      "Original Content", "Optimized Content", "Improvement Notes",
      "Optimization Score", "Model Used", "Error Message">>

\* what optimize_content returns for a row: no model answered, the primary
\* model answered in the format asked for, the fallback model answered freely
OptimizerReturns ==
    { returned_failure(OPTIMIZER, all_failed_message(OPTIMIZER)),
      returned_text(OPTIMIZER,
          <<"O", "p", "t", "i", "m", "i", "z", "e", "d", " ", "C", "o", "n",
              "t", "e", "n", "t", ":", " ", "B", "u", "y", " ", "n", "o",
              "w", "\n", "I", "m", "p", "r", "o", "v", "e", "m", "e",
              "n", "t", " ", "N", "o", "t", "e", "s", ":", " ", "a", "d",
              "d", "e", "d", " ", "C", "T", "A", "\n", "S", "c", "o",
              "r", "e", " ", "(", "o", "u", "t", " ", "o", "f", " ", "1",
              "0", ")", ":", " ", "8">>,
          PRIMARY_MODEL),
      returned_text(OPTIMIZER, <<"B", "u", "y", " ", "n", "o", "w">>, FALLBACK_MODEL) }

\* a row of Generated_Marketing_Content with what optimize_content returns
\* for it; a row without content is never passed to the LLM
OptimizerItems ==
    {[content |-> SampleText(6, 1, 0), returned |-> r] : r \in OptimizerReturns}
    \cup {[content |-> <<>>, returned |-> returned_failure(OPTIMIZER, "not called")]}

\* the rows load_generated_content() returns: up to MaxItems rows
OptimizerInputs == UNION {[1..n -> OptimizerItems] : n \in 0..MaxItems}

\* the dict appended to optimized_records for a row, at time now
optimized_record(item, now) ==
    LET p == parse_optimization_output(item.returned.text)
    IN  [kind |-> "pages/5",
         Timestamp |-> now,
         Original_Content |-> item.content,
         Optimized_Content |-> p.optimized,
         Improvement_Notes |-> p.notes,
         Optimization_Score |-> p.score,
         Model_Used |-> item.returned.model,
         Error_Message |-> item.returned.error]

\* optimized_records after the loop; a row without content is skipped
optimized_records(items, now) ==
    LET has_content(item) == ~falsy(item.content)
        kept == SelectSeq(items, has_content)
    IN  [k \in 1..Len(kept) |-> optimized_record(kept[k], now)]

\* ws.get_all_values()
get_all_values(ws) == ws.rows

\* the header is added on every upload
needs_headers_always(ws) == TRUE

\* if not ws.get_all_values(): the header is added to a tab without values
needs_headers(ws) == Len(get_all_values(ws)) = 0

\* upload_optimized_results(records)
upload_optimized_results(sh, records) ==
    LET ws0 == IF sh[OPTIMIZED_TAB].exists THEN sh[OPTIMIZED_TAB] ELSE add_worksheet
        ws1 == IF needs_headers(ws0)
               THEN append_rows(ws0, <<HeaderRow(HEADERS_OPTIMIZED)>>)
               ELSE ws0
    IN  [sh EXCEPT ![OPTIMIZED_TAB] = append_rows(ws1, records)]

\* the button of the page
optimizer_page(sh, log, items, now) ==
    LET records == optimized_records(items, now)
    IN  IF Len(items) = 0 \/ Len(records) = 0
        THEN [sheet |-> sh, slack |-> log, results |-> records]
        ELSE [sheet   |-> upload_optimized_results(sh, records),
              slack   |-> send_slack(log, [text |-> "Optimized posts successfully!",
                                          posts |-> Len(records)]),
              results |-> records]

InitOptimizer ==
    /\ shape = NoShape
    /\ text = <<>>
    /\ sent = 0
    /\ scored = NotScored
    /\ base_score = 0
    /\ predicted = NotPredicted
    /\ row = NoRow
    /\ record = NoRecord
    /\ plat = NoPlatform
    /\ modifier = NoModifier
    /\ post_time = NoTime
    /\ llm = NoLLM
    /\ sid = NoSid
    /\ evals = <<>>
    /\ \E tab \in {Absent, Tab(<<>>)} : sheet = [t \in {OPTIMIZED_TAB} |-> tab]
    /\ slack = <<>>
    /\ run = [fn |-> "none", now |-> 0, input |-> NoGenerated, results |-> <<>>,
              outcome |-> "none", before |-> <<>>, slack_before |-> <<>>]
    /\ parsed = NotParsed

\* the button of pages/5_Content_Optimizer.py
OptimizerPage ==
    /\ sheet # NoSheet
    /\ OPTIMIZED_TAB \in DOMAIN sheet
    /\ run.now < MaxUploads
    /\ \E items \in OptimizerInputs :
           Ran("pages/5", "ok", Generated(items),
               optimizer_page(sheet, slack, items, run.now + 1))

NextOptimizer == OptimizerPage

SpecOptimizer == InitOptimizer /\ [][NextOptimizer]_vars


----------------------------------------------------------------------------
(* The unified sentiment workflow: main() of pages/6_Sentiment_Analysis.py. *)
(* The items of one content type are kept by their number for each         *)
(* compound sentiment; the rows of the output tabs likewise.               *)

ALL_SOURCES_TAB == "All_Content_Sources"
SENTIMENT_RESULTS_TAB == "Sentiment_Results_All"
DASHBOARD_TAB == "Performance_Dashboard"

\* the tabs main() writes, in no particular order
OutputTabs == {ALL_SOURCES_TAB, SENTIMENT_RESULTS_TAB, DASHBOARD_TAB}

\* thresholds of the labels, units of 1/10000
POSITIVE_THRESHOLD == 500
NEGATIVE_THRESHOLD == -500

\* NEGATIVE_SHARE_ALERT = 0.30, in tenths of a percent
NEGATIVE_SHARE_ALERT == 300

\* the content types, in the order groupby sorts them
ContentTypes == <<"article", "comment", "post", "video">>

\* compound sentiments of the items: negative, on and next to the negative
\* threshold, and positive
Compounds == <<-8625, -500, -499, 4404>>

\* label_row(c)
label_row(c) ==
    IF c >= POSITIVE_THRESHOLD THEN "positive"
    ELSE IF c <= NEGATIVE_THRESHOLD THEN "negative"
    ELSE "neutral"

\* the items of a content type: for each compound the number of items with
\* it. None; one of three negative; 30% negative, by either compound; 61 of
\* 203 negative; 301 of 1000 negative; 40% negative; none negative
Groups ==
    { <<0, 0, 0, 0>>, <<1, 0, 0, 2>>, <<3, 0, 7, 0>>, <<0, 3, 7, 0>>,
      <<61, 0, 0, 142>>, <<301, 0, 0, 699>>, <<4, 0, 0, 6>>, <<0, 0, 1, 1>> }

\* the combined content build_all_sources_df() finds in the source tabs
SourceContents ==
    {[t \in {"article", "comment", "post", "video"} |->
        CASE t = "video" -> v [] t = "comment" -> c [] t = "article" -> a
          [] t = "post" -> <<0, 0, 0, 0>>] :
        v \in Groups, c \in Groups, a \in {<<0, 0, 0, 0>>, <<1, 0, 0, 2>>}}

\* the number of items of a group
RECURSIVE count_upto(_, _)
count_upto(g, i) == IF i = 0 THEN 0 ELSE count_upto(g, i - 1) + g[i]
Posts(g) == count_upto(g, Len(Compounds))

\* the number of items of a group with the label
RECURSIVE labelled_upto(_, _, _)
labelled_upto(g, lab, i) ==
    IF i = 0 THEN 0
    ELSE labelled_upto(g, lab, i - 1)
         + (IF label_row(Compounds[i]) = lab THEN g[i] ELSE 0)
labelled(g, lab) == labelled_upto(g, lab, Len(Compounds))

\* len(combined)
total_items(content) ==
    Posts(content["article"]) + Posts(content["comment"])
    + Posts(content["post"]) + Posts(content["video"])

\* value_counts(normalize=True) * 100, rounded to one decimal: tenths of a
\* percent
pct(g, lab) == round_to(1000 * labelled(g, lab), Posts(g))

\* build_dashboard(sent_df): one row for each content type with items
build_dashboard(content) ==
    LET present == SelectSeq(ContentTypes, LAMBDA t : Posts(content[t]) > 0)
    IN  [k \in 1..Len(present) |->
            [kind |-> "dashboard",
             Content_Type |-> present[k],
             Posts        |-> Posts(content[present[k]]),
             PCT_NEGATIVE |-> pct(content[present[k]], "negative"),
             PCT_NEUTRAL  |-> pct(content[present[k]], "neutral"),
             PCT_POSITIVE |-> pct(content[present[k]], "positive")]]

\* the rows of All_Content_Sources: the items of each content type
rows_combined(content) ==
    LET present == SelectSeq(ContentTypes, LAMBDA t : Posts(content[t]) > 0)
    IN  [k \in 1..Len(present) |->
            [kind |-> "items", Content_Type |-> present[k],
             items |-> Posts(content[present[k]])]]

\* run_sentiment(df): the items of each content type with compound and label
run_sentiment(content) ==
    LET present == SelectSeq(ContentTypes, LAMBDA t : Posts(content[t]) > 0)
    IN  [k \in 1..Len(present) |->
            [kind |-> "scored", Content_Type |-> present[k],
             compounds |-> content[present[k]],
             negative |-> labelled(content[present[k]], "negative"),
             neutral  |-> labelled(content[present[k]], "neutral"),
             positive |-> labelled(content[present[k]], "positive")]]

\* upload_df_to_sheet(spreadsheet, df, tab_name); every exception is caught
\* and printed
upload_df_to_sheet(sh, cols, rows, tab_name, outcome) ==
    LET ws == IF sh[tab_name].exists THEN clear(sh[tab_name]) ELSE add_worksheet
    IN  CASE outcome = "worksheet_raises" -> sh
          [] outcome = "update_raises" -> [sh EXCEPT ![tab_name] = ws]
          [] outcome = "ok" ->
                 [sh EXCEPT ![tab_name] = update(ws, <<HeaderRow(cols)>> \o rows)]

\* alerts: the content types with pct_neg / 100.0 > NEGATIVE_SHARE_ALERT
alerts_of(dashboard) ==
    LET high == SelectSeq(dashboard, LAMBDA r : r.PCT_NEGATIVE > NEGATIVE_SHARE_ALERT)
    IN  [k \in 1..Len(high) |->
            [Content_Type |-> high[k].Content_Type, pct |-> high[k].PCT_NEGATIVE]]

COMPLETED == "Sentiment analysis completed successfully!"

InitSentiment ==
    /\ shape = NoShape
    /\ text = <<>>
    /\ sent = 0
    /\ scored = NotScored
    /\ base_score = 0
    /\ predicted = NotPredicted
    /\ row = NoRow
    /\ record = NoRecord
    /\ plat = NoPlatform
    /\ modifier = NoModifier
    /\ post_time = NoTime
    /\ llm = NoLLM
    /\ sid = NoSid
    /\ evals = <<>>
    /\ \E old \in {Absent, Tab(OldRows)} : sheet = [t \in OutputTabs |-> old]
    /\ slack = <<>>
    /\ \E content \in SourceContents :
           run = [fn |-> "pages/6.main", pc |-> "start", content |-> content,
                  connected |-> FALSE, uploads |-> <<>>, dashboard |-> <<>>,
                  before |-> sheet]
    /\ parsed = NotParsed

\* a step of main(): the effect on the run, the spreadsheet and Slack
Step(next_run, next_sheet, next_slack) ==
    /\ run' = next_run
    /\ sheet' = next_sheet
    /\ slack' = next_slack
    /\ UNCHANGED scoring_vars
    /\ UNCHANGED <<sid, evals, parsed>>

\* send_slack(":rocket: Starting ...")
MainStart ==
    /\ run.fn = "pages/6.main"
    /\ run.pc = "start"
    /\ Step([run EXCEPT !.pc = "connect"], sheet,
            send_slack(slack, [text |-> "Starting Unified Sentiment & Metrics"]))

\* try: ss = connect_to_sheets()  except: send_slack(":x: ..."); return
MainConnect ==
    /\ run.fn = "pages/6.main"
    /\ run.pc = "connect"
    /\ \/ Step([run EXCEPT !.pc = "combine", !.connected = TRUE], sheet, slack)
       \/ Step([run EXCEPT !.pc = "done"], sheet,
               send_slack(slack, [text |-> "ERROR: Could not connect to Google Sheets"]))

\* combined = build_all_sources_df(ss); if combined.empty: warn and return
MainCombine ==
    /\ run.fn = "pages/6.main"
    /\ run.pc = "combine"
    /\ IF total_items(run.content) = 0
       THEN Step([run EXCEPT !.pc = "done"], sheet,
                 send_slack(slack, [text |-> "No content found in source tabs."]))
       ELSE Step([run EXCEPT !.pc = "save_sources"], sheet, slack)

\* upload of the combined content, then the message about it
MainSaveSources ==
    /\ run.fn = "pages/6.main"
    /\ run.pc = "save_sources"
    /\ \E outcome \in UploadOutcomes :
           Step([run EXCEPT !.pc = "sentiment",
                            !.uploads = Append(@, [tab |-> ALL_SOURCES_TAB,
                                                   outcome |-> outcome])],
                upload_df_to_sheet(sheet,
                    <<"Source", "Content Type", "Text", "URL", "Topic", "Date">>,
                    rows_combined(run.content), ALL_SOURCES_TAB, outcome),
                send_slack(slack, [text |-> "Combined items",
                                   items |-> total_items(run.content)]))

\* run_sentiment, upload of its results, then the message about it
MainSentiment ==
    /\ run.fn = "pages/6.main"
    /\ run.pc = "sentiment"
    /\ \E outcome \in UploadOutcomes :
           Step([run EXCEPT !.pc = "dashboard",
                            !.uploads = Append(@, [tab |-> SENTIMENT_RESULTS_TAB,
                                                   outcome |-> outcome])],
                upload_df_to_sheet(sheet,
                    <<"Source", "Content Type", "Text", "URL", "Topic", "Date",
                      "neg", "neu", "pos", "compound", "Sentiment_Label">>,
                    run_sentiment(run.content), SENTIMENT_RESULTS_TAB, outcome),
                send_slack(slack, [text |-> "Saved sentiment results",
                                   items |-> total_items(run.content)]))

\* build_dashboard; if it has rows, its upload and the message about it
MainDashboard ==
    /\ run.fn = "pages/6.main"
    /\ run.pc = "dashboard"
    /\ LET dashboard == build_dashboard(run.content)
       IN  IF Len(dashboard) = 0
           THEN Step([run EXCEPT !.pc = "summary", !.dashboard = dashboard],
                     sheet, slack)
           ELSE \E outcome \in UploadOutcomes :
                    Step([run EXCEPT !.pc = "summary", !.dashboard = dashboard,
                                     !.uploads = Append(@, [tab |-> DASHBOARD_TAB,
                                                            outcome |-> outcome])],
                         upload_df_to_sheet(sheet,
                             <<"Content Type", "Posts", "Avg_Compound", "Avg_Positive",
                               "Avg_Negative", "PCT_NEGATIVE", "PCT_NEUTRAL",
                               "PCT_POSITIVE">>,
                             dashboard, DASHBOARD_TAB, outcome),
                         send_slack(slack,
                             [text |-> "Updated performance metrics dashboard."]))

\* the summary of the content types
MainSummary ==
    /\ run.fn = "pages/6.main"
    /\ run.pc = "summary"
    /\ Step([run EXCEPT !.pc = "alert"], sheet,
            send_slack(slack, [text |-> "Daily Sentiment Summary",
                               lines |-> run.dashboard]))

\* the alert, if any content type's negative percentage is over the threshold
MainAlert ==
    /\ run.fn = "pages/6.main"
    /\ run.pc = "alert"
    /\ LET alerts == alerts_of(run.dashboard)
       IN  Step([run EXCEPT !.pc = "finish"], sheet,
                IF Len(alerts) > 0
                THEN send_slack(slack, [text |-> "Negative sentiment spike detected",
                                        alerts |-> alerts])
                ELSE slack)

\* send_slack(":dart: Sentiment analysis completed successfully!")
MainFinish ==
    /\ run.fn = "pages/6.main"
    /\ run.pc = "finish"
    /\ Step([run EXCEPT !.pc = "done"], sheet,
            send_slack(slack, [text |-> COMPLETED]))

NextSentiment ==
    \/ MainStart \/ MainConnect \/ MainCombine \/ MainSaveSources
    \/ MainSentiment \/ MainDashboard \/ MainSummary \/ MainAlert \/ MainFinish

SpecSentiment == InitSentiment /\ [][NextSentiment]_vars

----------------------------------------------------------------------------
(* All together.                                                           *)

Init ==
    \/ InitScore \/ InitViral \/ InitModifier \/ InitCoach \/ InitLLM
    \/ InitSession \/ InitSheets \/ InitParse \/ InitOptimizer
    \/ InitSentiment

Next ==
    \/ NextScore \/ NextViral \/ NextModifier \/ NextCoach \/ NextLLM
    \/ NextSession \/ NextSheets \/ NextParse \/ NextOptimizer
    \/ NextSentiment

Spec == Init /\ [][Next]_vars

----------------------------------------------------------------------------
(* Properties.                                                             *)

\* C1: in every scorer revision the content score final_score returns lies
\* in [0.0, 1.0].
C1_ScoreInUnitRange ==
    scored.rev # "none" => (0 <= scored.val /\ scored.val <= 1000)

\* C2 as stated: with base score 1.0 and the empty text every platform's
\* viral score is exactly 0.7.
C2_EmptyTextAllSeventy ==
    (predicted.called /\ base_score = 1000 /\ text = <<>>)
        => \A p \in {"Twitter", "Instagram", "LinkedIn", "YouTube"} :
               predicted.platform_scores[p] = 700

\* C2 amended: with base score 1.0 and the empty text the viral scores are
\* Twitter 0.724, Instagram 0.7, LinkedIn 0.691, YouTube 0.7.
C2_EmptyTextViralScores ==
    (predicted.called /\ base_score = 1000 /\ text = <<>>)
        => /\ predicted.platform_scores["Twitter"] = 724
           /\ predicted.platform_scores["Instagram"] = 700
           /\ predicted.platform_scores["LinkedIn"] = 691
           /\ predicted.platform_scores["YouTube"] = 700

C2_Witness == predicted.called /\ base_score = 1000 /\ text = <<>>

\* C3: the variant with the strictly higher best-platform viral score wins,
\* a tie goes to variant A, and the recommended platform is the winner's own
\* best platform.
C3_WinnerAndPlatform ==
    record.written =>
        LET best(sc) == CHOOSE m \in {sc[p] : p \in DOMAIN sc} :
                            \A p \in DOMAIN sc : sc[p] <= m
            a == best(record.p_scores_a)
            b == best(record.p_scores_b)
        IN  /\ a > b => record.Winner = "A (Original)"
            /\ b > a => record.Winner = "B (AI)"
            /\ a = b => record.Winner = "A (Original)"
            /\ record.Winner = "A (Original)"
                   => record.Best_Platform = record.best_plat_a
            /\ record.Winner = "B (AI)"
                   => record.Best_Platform = record.best_plat_b

\* a tie between two variants whose best platforms differ
C3_Witness ==
    /\ record.written
    /\ record.Score_A_Predicted = record.Score_B_Predicted
    /\ record.best_plat_a # record.best_plat_b
    /\ record.Winner = "A (Original)"
    /\ record.Best_Platform = record.best_plat_a

\* C4: the best platform has the maximum viral score of the four, and is the
\* first of the platforms with that score in the order Twitter, Instagram,
\* LinkedIn, YouTube.
C4_BestIsFirstMaximum ==
    predicted.called =>
        LET order == <<"Twitter", "Instagram", "LinkedIn", "YouTube">>
            sc    == predicted.platform_scores
        IN  \E k \in 1..4 :
                /\ order[k] = predicted.best_platform
                /\ \A j \in 1..4 : sc[order[j]] <= sc[order[k]]
                /\ \A j \in 1..(k - 1) : sc[order[j]] < sc[order[k]]

\* several platforms share the maximum and the first of them is not the
\* first platform
C4_Witness ==
    /\ predicted.called
    /\ predicted.best_platform = "Instagram"
    /\ predicted.platform_scores["LinkedIn"] = predicted.platform_scores["Instagram"]
    /\ predicted.platform_scores["YouTube"] = predicted.platform_scores["Instagram"]

\* C5: for every base score, also below 0 or above 1, and every text,
\* compute_viral_prediction returns exactly the four platform entries, each
\* with a viral score in [0, 1].
C5_FourEntriesInUnitRange ==
    predicted.called =>
        /\ DOMAIN predicted.platform_scores
               = {"Twitter", "Instagram", "LinkedIn", "YouTube"}
        /\ \A p \in DOMAIN predicted.platform_scores :
               /\ 0 <= predicted.platform_scores[p]
               /\ predicted.platform_scores[p] <= 1000

\* a base score above 1 whose prediction was clamped
C5_Witness ==
    /\ predicted.called
    /\ base_score > 1000
    /\ \E p \in DOMAIN predicted.platform_scores :
           predicted.platform_scores[p] = 1000

\* C6 as stated: the empty text scores exactly 0.0 in every revision.
C6_EmptyTextScoresZero ==
    (scored.rev # "none" /\ text = <<>>) => scored.val = 0

\* C6 amended: the empty text scores 0.0 in the four-term revisions
\* (pages/7, pages/8) and 0.22 in the five-term revision (page/7).
C6_EmptyTextScorePerRevision ==
    (scored.rev # "none" /\ text = <<>>)
        => scored.val = IF scored.rev = "page/7" THEN 220 ELSE 0

C6_Witness == scored.rev = "pages/8" /\ text = <<>> /\ scored.val = 0

\* C7 as stated: the empty text scores the weighted sum of sentiment 0,
\* density 0, readability 0.4, CTA 0.4 and trend 0.5 under the revision's
\* weights: 0.22 with five terms, 0.20 with four.
C7_EmptyTextWeightedSum ==
    (scored.rev # "none" /\ text = <<>>)
        => scored.val = IF scored.rev = "page/7"
                        THEN (20 * 0 + 20 * 4000 + 20 * 5000 + 10 * 4000) \div 1000
                        ELSE (20 * 0 + 20 * 4000 + 30 * 4000) \div 1000

\* C7 amended: in the five-term revision the empty text has the sub-scores
\* density 0, readability 0.4, CTA 0.4, trend 0.5 and scores their weighted
\* sum with sentiment 0, which is 0.22; the four-term revisions compute no
\* sub-score for the empty text and return 0.0, not 0.20.
C7_EmptyTextFiveTermSum ==
    /\ (scored.rev = "page/7" /\ text = <<>>)
           => /\ sent = 0
              /\ scored.k = 0
              /\ scored.r = 4000
              /\ scored.c = 4000
              /\ scored.tr = 5000
              /\ 1000 * scored.val
                     = 30 * sent + 20 * scored.k + 20 * scored.r
                       + 20 * scored.tr + 10 * scored.c
              /\ scored.val = 220
    /\ (scored.rev \in {"pages/7", "pages/8"} /\ text = <<>>)
           => /\ scored.k = NotComputed
              /\ scored.r = NotComputed
              /\ scored.c = NotComputed
              /\ scored.val # 200

C7_Witness == scored.rev = "page/7" /\ text = <<>> /\ scored.val = 220

\* C8 as stated: in every revision the readability sub-score of a text of
\* n words is 0.4 if n < 8, 0.5 if n > 60 and 1.0 otherwise.
C8_ReadabilityTiersEveryRevision ==
    (scored.rev # "none" /\ scored.r # NotComputed)
        => LET n == WordsOf(shape)
           IN  scored.r = IF n < 8 THEN 4000
                          ELSE IF n > 60 THEN 5000 ELSE 10000

\* C8 amended: the five-term revision gives readability 0.4 if n < 8, 0.5 if
\* n > 60 and 1.0 otherwise; the four-term revisions give 0.5 if n < 8 or
\* n > 60 and 1.0 otherwise.
C8_ReadabilityTiersPerRevision ==
    LET n == WordsOf(shape)
    IN  /\ scored.rev = "page/7"
               => scored.r = IF n < 8 THEN 4000
                             ELSE IF n > 60 THEN 5000 ELSE 10000
        /\ (scored.rev \in {"pages/7", "pages/8"} /\ scored.r # NotComputed)
               => scored.r = IF n < 8 \/ n > 60 THEN 5000 ELSE 10000

\* a text of 5 words scored by a four-term revision
C8_Witness ==
    scored.rev = "pages/8" /\ WordsOf(shape) = 5 /\ scored.r = 5000

\* C9: every token that equals a keyword of the revision's list ignoring
\* case, "AI" included, adds one to the keyword count, repeats included.
C9_KeywordMatchIgnoresCase ==
    (scored.rev # "none" /\ scored.k # NotComputed)
        => LET words == split(text)
               listed == IF scored.rev = "page/7"
                         THEN keywords_page7 ELSE keywords_pages8
               n == Cardinality({i \in 1..Len(words) :
                        \E kw \in listed : lower(words[i]) = lower(kw)})
           IN  scored.k = IF 2000 * n <= 10000 THEN 2000 * n ELSE 10000

\* C10: the keyword sub-score is never greater than 1.0, and a text that is
\* one keyword of the list repeated 10 times has the sub-score exactly 1.0.
C10_KeywordDensitySaturates ==
    (scored.rev # "none" /\ scored.k # NotComputed)
        => LET listed == IF scored.rev = "page/7"
                         THEN keywords_page7 ELSE keywords_pages8
           IN  /\ scored.k <= 10000
               /\ (/\ shape.rep = 10
                   /\ shape.pad = 0
                   /\ Len(Heads[shape.h]) = 1
                   /\ Heads[shape.h][1] \in listed)
                      => scored.k = 10000

\* C11 as stated: in every revision and for every text the final score is
\* the weighted sum of the sub-scores, rounded to 3 decimals, under Scheme 1
\* (0.30 sentiment, 0.20 keyword, 0.20 readability, 0.20 trend, 0.10 CTA) or
\* Scheme 2 (0.30 sentiment, 0.20 keyword, 0.20 readability, 0.30 CTA).
C11_WeightedSumEveryText ==
    scored.rev # "none" =>
        LET five == scored.rev = "page/7"
            k    == IF five THEN keyword_score(text) ELSE k_score_pages8(text)
            r    == IF five THEN readability_score(text) ELSE r_score_pages8(text)
            c    == IF five THEN cta_strength(text) ELSE c_score_pages8(text)
            sum  == IF five
                    THEN 30 * sent + 20 * k + 20 * r + 20 * trend_score(text) + 10 * c
                    ELSE 30 * sent + 20 * k + 20 * r + 30 * c
            diff == 1000 * scored.val - sum
        IN  -500 <= diff /\ diff <= 500

\* C11 amended: the weights of both schemes sum to 1.0; the five-term
\* revision (page/7) returns, for every text, the Scheme 1 sum of its
\* sub-scores rounded to 3 decimals; the four-term revisions (pages/7,
\* pages/8) return the Scheme 2 sum rounded to 3 decimals for every non-empty
\* text, and 0.0 for the empty text, whose sub-scores they never compute.
C11_WeightedSumPerRevision ==
    LET scheme1 == [s |-> 30, k |-> 20, r |-> 20, tr |-> 20, c |-> 10]
        scheme2 == [s |-> 30, k |-> 20, r |-> 20, tr |-> 0, c |-> 30]
        total(w) == w.s + w.k + w.r + w.tr + w.c
        sum(w)  == w.s * sent + w.k * scored.k + w.r * scored.r
                   + w.tr * scored.tr + w.c * scored.c
        rounds(w) == LET diff == 1000 * scored.val - sum(w)
                     IN  -500 <= diff /\ diff <= 500
    IN  /\ total(scheme1) = 100
        /\ total(scheme2) = 100
        /\ scored.rev = "page/7" => rounds(scheme1)
        /\ (scored.rev \in {"pages/7", "pages/8"} /\ text # <<>>)
               => /\ scored.tr = NotComputed
                  /\ rounds(scheme2)
        /\ (scored.rev \in {"pages/7", "pages/8"} /\ text = <<>>)
               => /\ scored.val = 0
                  /\ scored.k = NotComputed

\* a four-term score of a text with a keyword, a CTA and a sentiment, whose
\* weighted sum is not a whole number of thousandths
C11_Witness ==
    /\ scored.rev = "pages/7"
    /\ scored.k > 0
    /\ scored.c = 10000
    /\ sent # 0
    /\ (30 * sent + 20 * scored.k + 20 * scored.r + 30 * scored.c) % 1000 # 0

\* C12: the Twitter modifier is the sum of the rules that fire, each on its
\* own: +0.08 if the word count is at most 30, one +0.05 if the text
\* contains "#" or "trending" (once, also when it contains both), +0.02 if
\* it contains "!", -0.05 if the word count is above 50; the text
\* "Great deal! #trending" has the modifier 0.15.
C12_TwitterRules ==
    (modifier.called /\ plat = "Twitter" /\ shape # NoShape) =>
        LET n        == WordsOf(shape)
            has(c)   == \E i \in 1..Len(text) : text[i] = c
            trending == contains(<<"t", "r", "e", "n", "d", "i", "n", "g">>,
                                 lower(text))
            short    == IF n <= 30 THEN 80 ELSE 0
            tagged   == IF has("#") \/ trending THEN 50 ELSE 0
            excited  == IF has("!") THEN 20 ELSE 0
            long     == IF n > 50 THEN -50 ELSE 0
        IN  /\ ~modifier.raised
            /\ modifier.val = short + tagged + excited + long
            /\ shape = [h |-> 7, rep |-> 1, pad |-> 0] => modifier.val = 150

\* the Twitter modifier of "Great deal! #trending", which contains both "#"
\* and "trending"
C12_Witness ==
    /\ modifier.called
    /\ plat = "Twitter"
    /\ shape = [h |-> 7, rep |-> 1, pad |-> 0]
    /\ text = <<"G", "r", "e", "a", "t", " ", "d", "e", "a", "l", "!", " ",
                "#", "t", "r", "e", "n", "d", "i", "n", "g">>
    /\ modifier.val = 150

\* C13: the LinkedIn modifier is +0.08 if the word count is at least 20,
\* plus +0.06 if the text contains, ignoring case and as a substring, any of
\* "insight", "data", "strategy", "growth", "productivity", minus 0.03 if
\* the word count is below 10; a text whose only listed term is
\* "productivity" receives the +0.06.
C13_LinkedInRules ==
    (modifier.called /\ plat = "LinkedIn" /\ shape # NoShape) =>
        LET n      == WordsOf(shape)
            listed == { <<"i", "n", "s", "i", "g", "h", "t">>,
                        <<"d", "a", "t", "a">>,
                        <<"s", "t", "r", "a", "t", "e", "g", "y">>,
                        <<"g", "r", "o", "w", "t", "h">>,
                        <<"p", "r", "o", "d", "u", "c", "t", "i", "v", "i", "t", "y">> }
            long   == IF n >= 20 THEN 80 ELSE 0
            term   == IF \E w \in listed : contains(w, lower(text)) THEN 60 ELSE 0
            short  == IF n < 10 THEN -30 ELSE 0
        IN  modifier.val = long + term + short

\* C14: for every text and each of the four platforms the platform modifier
\* lies in [-0.08, +0.22].
C14_ModifierBounded ==
    (modifier.called /\ plat \in {"Twitter", "Instagram", "LinkedIn", "YouTube"})
        => /\ ~modifier.raised
           /\ -80 <= modifier.val
           /\ modifier.val <= 220

\* the largest modifier there is: an Instagram text of 8 to 60 words with
\* "#" and a listed word, 0.18
C14_Witness ==
    /\ modifier.called
    /\ plat = "Instagram"
    /\ modifier.length >= 8
    /\ modifier.val = 180

\* C15: for every base score b in [0, 1], every text and every platform the
\* viral score is clamp(0.7*b + 0.3*modifier, 0, 1) rounded to 3 decimals,
\* and lies in [0.7*b - 0.024, 0.7*b + 0.066] up to the rounding.
C15_FitShiftsNeverDominates ==
    (predicted.called /\ 0 <= base_score /\ base_score <= 1000) =>
        /\ ~predicted.raised
        /\ \A p \in {"Twitter", "Instagram", "LinkedIn", "YouTube"} :
               LET exact   == 7 * base_score + 3 * predicted.mods[p]
                   clamped == IF exact < 0 THEN 0
                              ELSE IF exact > 10000 THEN 10000 ELSE exact
                   score   == 10 * predicted.platform_scores[p]
               IN  /\ score - clamped \in -5..5
                   /\ 7 * base_score - 240 - 5 <= score
                   /\ score <= 7 * base_score + 660 + 5

\* a base score of 0.22 that one platform lowers and another raises
C15_Witness ==
    /\ predicted.called
    /\ base_score = 220
    /\ predicted.mods["Twitter"] < 0
    /\ predicted.platform_scores["Twitter"] < 154
    /\ predicted.mods["Instagram"] > 0
    /\ predicted.platform_scores["Instagram"] > 154

\* C16: the posting time depends on the platform name alone, whatever was
\* computed for the text: each of the four platforms has a fixed time string
\* of its own, and every other platform name gives "Anytime".
C16_PostingTimeFixed ==
    post_time # NoTime =>
        LET times == [p \in {"Twitter", "Instagram", "LinkedIn", "YouTube"} |->
                         CASE p = "Twitter"   -> "5-8 PM (Weekdays)"
                           [] p = "Instagram" -> "6-9 PM (Weekdays)"
                           [] p = "LinkedIn"  -> "8-10 AM (Mornings)"
                           [] p = "YouTube"   -> "5-8 PM (Weekends)"]
        IN  /\ \A p, q \in DOMAIN times : p # q => times[p] # times[q]
            /\ \A p \in DOMAIN times : times[p] # "Anytime"
            /\ plat \in DOMAIN times => post_time = times[plat]
            /\ plat \notin DOMAIN times => post_time = "Anytime"

\* a platform outside the four, looked up after a modifier was computed
C16_Witness ==
    /\ plat = "TikTok"
    /\ post_time = "Anytime"
    /\ modifier.called
    /\ shape # NoShape

\* C18 as stated: for the empty and for the missing (None) text
\* platform_modifier and compute_viral_prediction do not raise, count zero
\* words, and give on every platform the least modifier any text obtains
\* there: no text has a smaller modifier on any platform.
C18_EmptyTextWorstCase ==
    predicted.called =>
        /\ ~predicted.raised
        /\ text \in {<<>>, NoneText} => predicted.length = 0
        /\ \A p \in {"Twitter", "Instagram", "LinkedIn", "YouTube"} :
               /\ platform_modifier(<<>>, p) <= predicted.mods[p]
               /\ platform_modifier(NoneText, p) <= predicted.mods[p]

\* C18 amended: for the empty and for the missing (None) text
\* platform_modifier and compute_viral_prediction do not raise, count zero
\* words and give the modifiers Twitter +0.08, Instagram 0.0, LinkedIn -0.03,
\* YouTube 0.0; these are the least modifiers of Instagram, LinkedIn and
\* YouTube, but not of Twitter, whose least modifier is -0.05.
C18_EmptyTextModifiers ==
    predicted.called =>
        /\ ~predicted.raised
        /\ text \in {<<>>, NoneText}
               => /\ predicted.length = 0
                  /\ predicted.mods["Twitter"] = 80
                  /\ predicted.mods["Instagram"] = 0
                  /\ predicted.mods["LinkedIn"] = -30
                  /\ predicted.mods["YouTube"] = 0
        /\ predicted.mods["Twitter"] >= -50
        /\ predicted.mods["Instagram"] >= 0
        /\ predicted.mods["LinkedIn"] >= -30
        /\ predicted.mods["YouTube"] >= 0

\* the prediction for the missing text
C18_Witness ==
    /\ predicted.called
    /\ text = NoneText
    /\ ~predicted.raised
    /\ predicted.length = 0
    /\ predicted.mods["Twitter"] = 80

\* C17 as stated: the reason string of every compared pair is
\* "Variant {winner} wins (A={scoreA}, B={scoreB}) on {platform}" with winner
\* "A" or "B", scoreA and scoreB the best-platform viral scores of the two
\* variants and platform the recommended platform.
C17_ReasonNamesAOrB ==
    record.written =>
        LET best(sc) == CHOOSE m \in {sc[p] : p \in DOMAIN sc} :
                            \A p \in DOMAIN sc : sc[p] <= m
        IN  \E winner \in {<<"A">>, <<"B">>} :
                record.Recommendation_Reason =
                    <<"V", "a", "r", "i", "a", "n", "t", " ">> \o winner
                    \o <<" ", "w", "i", "n", "s", " ", "(", "A", "=">>
                    \o str_of_float(best(record.p_scores_a))
                    \o <<",", " ", "B", "=">>
                    \o str_of_float(best(record.p_scores_b))
                    \o <<")", " ", "o", "n", " ">>
                    \o chars_of(record.Best_Platform)

\* C17 amended: the reason string of every compared pair is
\* "Variant {label} wins (A={scoreA}, B={scoreB}) on {platform}" where label
\* is "A (Original)" if variant A won and "B (AI)" if variant B won, scoreA
\* and scoreB are the best-platform viral scores of the two variants and
\* platform is the recommended platform.
C17_ReasonNamesLabel ==
    record.written =>
        LET best(sc) == CHOOSE m \in {sc[p] : p \in DOMAIN sc} :
                            \A p \in DOMAIN sc : sc[p] <= m
            a_won == best(record.p_scores_a) >= best(record.p_scores_b)
            label == IF a_won
                     THEN <<"A", " ", "(", "O", "r", "i", "g", "i", "n", "a", "l", ")">>
                     ELSE <<"B", " ", "(", "A", "I", ")">>
        IN  /\ record.Recommendation_Reason =
                    <<"V", "a", "r", "i", "a", "n", "t", " ">> \o label
                    \o <<" ", "w", "i", "n", "s", " ", "(", "A", "=">>
                    \o str_of_float(best(record.p_scores_a))
                    \o <<",", " ", "B", "=">>
                    \o str_of_float(best(record.p_scores_b))
                    \o <<")", " ", "o", "n", " ">>
                    \o chars_of(record.Best_Platform)
            /\ record.Best_Platform =
                    IF a_won THEN record.best_plat_a ELSE record.best_plat_b

\* variant B wins on YouTube, 0.19 against 0.178: the reason reads
\* "Variant B (AI) wins (A=0.178, B=0.19) on YouTube"
C17_Witness ==
    /\ record.written
    /\ record.Winner = "B (AI)"
    /\ record.Recommendation_Reason =
           <<"V", "a", "r", "i", "a", "n", "t", " ", "B", " ", "(", "A",
             "I", ")", " ", "w", "i", "n", "s", " ", "(", "A", "=", "0",
             ".", "1", "7", "8", ",", " ", "B", "=", "0", ".", "1", "9",
             ")", " ", "o", "n", " ", "Y", "o", "u", "T", "u", "b", "e">>

\* C19: when Score A or Score B of a row is missing or is no number, the row
\* is still processed and the variant concerned enters the viral prediction
\* with a fixed low score, one below the midpoint 0.5 of the score range.
C19_DegenerateScoreIsLow ==
    record.written =>
        /\ row.score_a.kind \in {"absent", "text"} => record.score_a < 500
        /\ row.score_b.kind \in {"absent", "text"} => record.score_b < 500

\* C20 as stated: for each item the primary model is called first and the
\* fallback model only if the primary call raised; no model is called more
\* than once; the first successful response is returned with the name of the
\* model that produced it and no error; if both calls raise, or no API token
\* is set, the item is failed: no text, no model, a non-empty error message.
C20_PrimaryThenFallbackTriple ==
    llm.fn # "none" =>
        LET calls == llm.calls
            n     == Len(calls)
            succeeded == n > 0 /\ calls[n].kind = "ok"
        IN  /\ n <= 2
            /\ n >= 1 => calls[1].model = "meta-llama/Meta-Llama-3-8B-Instruct"
            /\ n = 2 => /\ calls[2].model = "mistralai/Mistral-7B-Instruct-v0.3"
                        /\ calls[1].kind = "raise"
            /\ (llm.pc = "done" /\ succeeded /\ llm.HF_TOKEN)
                   => /\ llm.ret.text = strip(calls[n].content)
                      /\ llm.ret.model = calls[n].model
                      /\ llm.ret.error = "None"
            /\ (llm.pc = "done" /\ (~succeeded \/ ~llm.HF_TOKEN))
                   => /\ llm.ret.text = NoneText
                      /\ llm.ret.model = "None"
                      /\ llm.ret.error \notin {"None", ""}

\* C20 amended: in every function the primary model is tried first and the
\* fallback model only if the primary attempt raised, in the call or in
\* reading the content of its response; no model is tried more than once;
\* the stripped content of the first successful response is returned.
\* generate_marketing_content and optimize_content return it with the name
\* of the model that produced it and no error, and return no text, no model
\* and a non-empty error message if both attempts raise; llm_variant
\* returns the text alone, or None, without a model name or an error
\* message.  The functions of pages/ return the failure without trying any
\* model if no API token is set; those of page/ do not check the token and
\* try the models all the same.
C20_PrimaryThenFallback ==
    llm.fn # "none" =>
        LET calls == llm.calls
            n     == Len(calls)
            succeeded == n > 0 /\ calls[n].kind = "ok"
            triple == llm.fn \in
                { "pages/4_Content_Generator.generate_marketing_content",
                  "pages/5_Content_Optimizer.optimize_content",
                  "page/4_Content_Generator.generate_marketing_content",
                  "page/5_Content_Optimizer.optimize_content" }
            guarded == llm.fn \in
                { "pages/4_Content_Generator.generate_marketing_content",
                  "pages/5_Content_Optimizer.optimize_content",
                  "pages/7_AB_Testing.llm_variant",
                  "pages/8_AB_Testing.llm_variant" }
        IN  /\ n <= 2
            /\ n >= 1 => calls[1].model = "meta-llama/Meta-Llama-3-8B-Instruct"
            /\ n = 2 => /\ calls[2].model = "mistralai/Mistral-7B-Instruct-v0.3"
                        /\ calls[1].kind \in {"raise", "no_content"}
            /\ (guarded /\ ~llm.HF_TOKEN) => n = 0
            /\ (llm.pc = "done" /\ ~(guarded /\ ~llm.HF_TOKEN)) => n >= 1
            /\ (llm.pc = "done" /\ succeeded)
                   => /\ llm.ret.text = strip(calls[n].content)
                      /\ \A k \in 1..(n - 1) : calls[k].kind # "ok"
                      /\ triple => /\ llm.ret.model = calls[n].model
                                   /\ llm.ret.error = "None"
            /\ (llm.pc = "done" /\ ~succeeded)
                   => /\ llm.ret.text = NoneText
                      /\ n \in {0, 2}
                      /\ triple => /\ llm.ret.model = "None"
                                   /\ llm.ret.error \notin {"None", ""}
            /\ (llm.pc = "done" /\ ~triple)
                   => /\ llm.ret.model = NotReturned
                      /\ llm.ret.error = NotReturned

\* optimize_content returns the fallback model's response after the primary
\* call raised
C20_Witness ==
    /\ llm.fn = "pages/5_Content_Optimizer.optimize_content"
    /\ llm.pc = "done"
    /\ Len(llm.calls) = 2
    /\ llm.calls[1].kind = "raise"
    /\ llm.calls[2].kind = "ok"
    /\ llm.calls[2].content = <<" ", "T", "r", "y", " ", "n", "o", "w", "\n">>
    /\ llm.ret = [text  |-> <<"T", "r", "y", " ", "n", "o", "w">>,
                  model |-> "mistralai/Mistral-7B-Instruct-v0.3",
                  error |-> "None"]

\* C26: every record of run_prediction_coach is consistent: Viral Score is
\* the larger of Score_A_Predicted and Score_B_Predicted, Best Platform is
\* the best platform of the winning variant, Winning Text is the winning
\* variant's text, and Recommended Time is the posting time of Best Platform,
\* one of the four platform-specific strings and never "Anytime".
C26_RecordConsistent ==
    record.written =>
        LET a_wins == record.Winner = "A (Original)"
            base   == IF a_wins THEN record.score_a ELSE record.score_b
            wtext  == IF a_wins THEN record.a_text ELSE record.b_text
            times  == [p \in {"Twitter", "Instagram", "LinkedIn", "YouTube"} |->
                          CASE p = "Twitter" -> "5-8 PM (Weekdays)"
                            [] p = "Instagram" -> "6-9 PM (Weekdays)"
                            [] p = "LinkedIn" -> "8-10 AM (Mornings)"
                            [] p = "YouTube" -> "5-8 PM (Weekends)"]
        IN  /\ record.Winner \in {"A (Original)", "B (AI)"}
            /\ record.Viral_Score =
                   max2(record.Score_A_Predicted, record.Score_B_Predicted)
            /\ record.Viral_Score =
                   IF a_wins THEN record.Score_A_Predicted
                   ELSE record.Score_B_Predicted
            /\ record.Best_Platform =
                   best_platform_of(platform_scores_of(base, wtext))
            /\ record.Winning_Text = wtext
            /\ record.Best_Platform \in DOMAIN times
            /\ record.Recommended_Time = times[record.Best_Platform]
            /\ record.Recommended_Time # "Anytime"

\* variant B wins on YouTube: the record carries B's text and score and the
\* weekend time
C26_Witness ==
    /\ record.written
    /\ record.Winner = "B (AI)"
    /\ record.Score_B_Predicted > record.Score_A_Predicted
    /\ record.Viral_Score = record.Score_B_Predicted
    /\ record.best_plat_a # "YouTube"
    /\ record.Best_Platform = "YouTube"
    /\ record.Recommended_Time = "5-8 PM (Weekends)"
    /\ record.a_text # record.b_text
    /\ record.Winning_Text = record.b_text

\* C27: when exactly one of Score A and Score B of a row is no number, the
\* other variant's score, which was parsed, is still the base score of that
\* variant's viral prediction, unchanged.
C27_OtherScoreKept ==
    record.written =>
        /\ (row.score_a.kind = "text" /\ row.score_b.kind # "text")
               => record.score_b = float_of(row.score_b).v
        /\ (row.score_b.kind = "text" /\ row.score_a.kind # "text")
               => record.score_a = float_of(row.score_a).v

C28_TiesGoToA ==
    sheet # NoSheet =>
        /\ \A k \in 1..Len(sheet[AB_TAB].rows) :
               LET r == sheet[AB_TAB].rows[k]
               IN  (r.kind \in {"page/7", "pages"} /\ r.Score_A = r.Score_B)
                       => r.Winner \in {"A", "Variant A"}
        /\ \A k \in 1..Len(sheet[OUTPUT_TAB].rows) :
               LET r == sheet[OUTPUT_TAB].rows[k]
               IN  (r.kind = "pages/9" /\ r.Score_A_Predicted = r.Score_B_Predicted)
                       => r.Winner = "A (Original)"

\* C30: in the A/B Testing and Prediction Coach pages, a run with zero
\* result rows leaves the output tab as it was and sends no Slack message; a
\* run with at least one result row leaves the tab holding the header row
\* plus that run's rows.
C30_ZeroRowsNoEffect ==
    run.fn \in {"pages/7", "pages/8", "pages/9"} =>
        LET tab  == IF run.fn = "pages/9" THEN OUTPUT_TAB ELSE AB_TAB
            rows == sheet[tab].rows
        IN  /\ Len(run.results) = 0
                => /\ sheet[tab] = run.before[tab]
                   /\ slack = run.slack_before
            /\ Len(run.results) > 0
                => /\ sheet[tab].exists
                   /\ Len(rows) = 1 + Len(run.results)
                   /\ rows[1].kind = "header"
                   /\ \A k \in 1..Len(run.results) :
                          /\ rows[k + 1].kind = run.results[k].kind
                          /\ rows[k + 1].Timestamp = run.now
                          /\ rows[k + 1].Winner = run.results[k].Winner

\* C25: the parser extracts content even from badly formatted output: for a
\* missing or empty output it returns ("N/A", "N/A", "N/A"); for every output
\* with at least one non-whitespace character it returns a non-empty
\* optimized content: what the "Optimized Content:" section yields, or, when
\* that yields no text, the whole raw output (stripped) with the notes
\* "Auto-parsed raw output".
C25_ParserNeverEmpty ==
    parsed.called =>
        LET output == parsed.output
            na     == <<"N", "/", "A">>
            blank(s) == \A i \in 1..Len(s) : s[i] \in {" ", "\n", "\t"}
            mark   == <<"O", "p", "t", "i", "m", "i", "z", "e", "d", " ",
                        "C", "o", "n", "t", "e", "n", "t", ":">>
            auto   == <<"A", "u", "t", "o", "-", "p", "a", "r", "s", "e", "d", " ",
                        "r", "a", "w", " ", "o", "u", "t", "p", "u", "t">>
            raw    == parsed.optimized = strip(output) /\ parsed.notes = auto
        IN  /\ (output = NoneText \/ Len(output) = 0)
                => <<parsed.optimized, parsed.notes, parsed.score>> = <<na, na, na>>
            /\ (output # NoneText /\ ~blank(output))
                => /\ Len(parsed.optimized) > 0
                   /\ ~blank(parsed.optimized)
                   /\ blank(parsed.gathered) => raw
                   /\ ~blank(parsed.gathered)
                          => parsed.optimized = strip(parsed.gathered)
                   /\ ~contains(mark, output) => raw

\* an output whose "Optimized Content:" line is followed by nothing but a
\* score: the section yields no text and the raw output is returned
C25_Witness ==
    /\ parsed.called
    /\ parsed.output =
           <<"O", "p", "t", "i", "m", "i", "z", "e", "d", " ", "C", "o", "n",
             "t", "e", "n", "t", ":", "\n", "S", "c", "o", "r", "e", " ", "(",
             "o", "u", "t", " ", "o", "f", " ", "1", "0", ")", ":", " ", "8">>
    /\ parsed.optimized = parsed.output
    /\ parsed.notes = <<"A", "u", "t", "o", "-", "p", "a", "r", "s", "e", "d", " ",
                        "r", "a", "w", " ", "o", "u", "t", "p", "u", "t">>
    /\ parsed.score = <<"8">>

spike_alerts_sent ==
    SelectSeq(slack, LAMBDA m : m.text = "Negative sentiment spike detected")

(* C23: in the unified sentiment workflow the negative-sentiment spike     *)
(* alert is sent to Slack if and only if at least one content type has a   *)
(* share of negatively labelled items strictly greater than 30%, and the   *)
(* alert lists exactly those content types.                                *)
C23_AlertIffShareAbove30 ==
    (run.fn = "pages/6.main" /\ run.pc \in {"finish", "done"}
     /\ run.connected /\ total_items(run.content) > 0) =>
        LET above == SelectSeq(ContentTypes, LAMBDA t :
                         /\ Posts(run.content[t]) > 0
                         /\ 10 * labelled(run.content[t], "negative")
                                > 3 * Posts(run.content[t]))
        IN  IF Len(above) > 0
            THEN /\ Len(spike_alerts_sent) = 1
                 /\ [k \in 1..Len(spike_alerts_sent[1].alerts) |->
                        spike_alerts_sent[1].alerts[k].Content_Type] = above
            ELSE Len(spike_alerts_sent) = 0

(* C29: in main() of the unified sentiment workflow, if connecting to      *)
(* Google Sheets fails or no content is found, no output tab is written    *)
(* and the "completed successfully" message is never sent; otherwise the   *)
(* tabs are written in the order All_Content_Sources,                      *)
(* Sentiment_Results_All, Performance_Dashboard, and the "completed        *)
(* successfully" message is the last Slack message of the run and is sent  *)
(* only if every tab upload of that run succeeded.                         *)
C29_CompletedOnlyAfterSuccessfulUploads ==
    run.fn = "pages/6.main" =>
        LET completed == SelectSeq(slack, LAMBDA m : m.text = COMPLETED)
            order == <<ALL_SOURCES_TAB, SENTIMENT_RESULTS_TAB, DASHBOARD_TAB>>
        IN  /\ (~run.connected \/ total_items(run.content) = 0) =>
                   /\ sheet = run.before
                   /\ run.uploads = <<>>
                   /\ Len(completed) = 0
            /\ Len(run.uploads) <= Len(order)
            /\ \A k \in 1..Len(run.uploads) : run.uploads[k].tab = order[k]
            /\ Len(completed) > 0 =>
                   /\ run.pc = "done"
                   /\ Len(run.uploads) = Len(order)
                   /\ slack[Len(slack)].text = COMPLETED
                   /\ \A k \in 1..Len(run.uploads) : run.uploads[k].outcome = "ok"

====
